---- MODULE Spec2Model ----
(***************************************************************************)
(* A model of the electrs Electrum server: the mempool mirror              *)
(* (src/src/mempool.rs), the tracker (src/src/tracker.rs), the Electrum    *)
(* RPC dispatcher (src/src/electrum.rs) and the server loop                *)
(* (src/src/server.rs).                                                    *)
(***************************************************************************)
EXTENDS Integers, Sequences, FiniteSets, TLC

\* ------------------------------------------------------------------ bounds

\* Transaction ids the upstream node may report: 1..NumTx.
NumTx == 3

\* Transaction ids the node's mempool may hold while the server runs:
\* 1..NumServerTx.
NumServerTx == 1

\* Blocks the upstream peer may announce above genesis: 1..MaxHeight, so the
\* chain is at most MaxHeight high.
MaxHeight == 1

\* Connections the accept task takes: peer ids 0..MaxPeers-1.
MaxPeers == 2

\* Request lines the clients send, over all connections.
MaxLines == 2

\* Signals waiting on the signal channel at a time.
MaxSignals == 1

\* Events waiting on the event channel when a reader of the fair
\* specification sends a further request line.
MaxQueued == 2

\* Connections the fair specification accepts.
MaxFairPeers == 1

\* usize arithmetic is modelled modulo 2^UsizeBits, above every number a
\* call passes or computes.
UsizeBits == 16

\* The heights of the short chains blockchain.block.headers is called on;
\* it is also called on chains about max_count high.
MaxCallHeight == 3

\* The numbers of max_count - Around .. max_count + Around are tried as
\* counts and as chain heights.
Around == 1

\* Transactions of the longest block a Merkle branch is built for.
MaxBlockTxs == 5

\* The numbers the events of a connection are told apart by: more than the
\* events of one connection a batch holds.
TagModulus == 5

\* ------------------------------------------------------------ basic values

\* Option<T>: None is the empty set, Some(x) the singleton.
None == {}

Some(x) == {x}

IsSome(o) == o # {}

Unwrap(o) == CHOOSE x \in o : TRUE

Txids == 1..NumTx

\* An OutPoint (txid, vout); txid 0 stands for an already confirmed funding tx.
OutPoint(txid, vout) == <<txid, vout>>

\* ScriptHash::new: a digest of the script bytes (collision-free here).
ScriptHashNew(script_pubkey) == <<"scripthash", script_pubkey>>

\* The transaction with a given txid (a txid is the hash of the transaction, so
\* the upstream returns the same inputs and outputs for it each time).
\* Odd txids all spend OutPoint(0, 0) (conflicting spends, as around a fee
\* bump); even txids spend an output of the preceding (unconfirmed) txid.
\* Outputs repeat a script within one transaction and across transactions.
TransactionOf(t) ==
    [ input  |-> IF t % 2 = 0
                 THEN << OutPoint(t - 1, 0) >>
                 ELSE << OutPoint(0, 0), OutPoint(0, t) >>,
      output |-> IF t % 3 = 1 THEN << 1, 1 >>
                 ELSE IF t % 3 = 2 THEN << 1, 2 >>
                 ELSE << 2 >> ]

\* The unconfirmed parents a transaction can have in the node's mempool.
ParentsOf(t) == { TransactionOf(t).input[i][1] : i \in 1..Len(TransactionOf(t).input) } \ {0}

\* json::GetMempoolEntryResult of the upstream for txid t: the fields the
\* mirror reads (vsize, fees.base, depends).
MempoolEntryResult(t, depends) ==
    [ vsize |-> 100 * t, fees_base |-> 100 * t * (1 + ((t + 1) % 2)), depends |-> depends ]

Range(s) == { s[i] : i \in 1..Len(s) }

Min2(a, b) == IF a <= b THEN a ELSE b

RECURSIVE SetToSortedSeq(_)
\* The elements of a finite set of integers in ascending order.
SetToSortedSeq(S) ==
    IF S = {} THEN << >>
    ELSE LET m == CHOOSE x \in S : \A y \in S : x <= y
         IN  << m >> \o SetToSortedSeq(S \ {m})

\* --------------------------------------------------------------- variables

VARIABLES
    mempool,    \* Tracker.mempool: [entries, by_funding, by_spending, histogram]
    abort,      \* "" or the message of the panic that aborted the task
    lastSync,   \* history: what the last Mempool::sync call saw and did
    chain,      \* Tracker.index.chain(): the blocks above genesis
    tick,       \* history: how the index sync and the mirror's sync of the last
                \* Tracker::sync ended: "ok", "err", or "skipped" (not called)
    pc,         \* where the main task is: main, select, sync, notify, exit, error
    peers,      \* run's peers map: peer id -> the Peer's client
    stream,     \* per accepted connection: "open" or "shutdown"
    reader,     \* per accepted connection, its recv_loop: "lines", "closed"
    chan,       \* the event channel (server_tx -> server_rx)
    signals,    \* the signal channel of signals::register
    written,    \* per connection: what the main task's last step wrote to it
    reported,   \* history: per connection, the status hash per script and the header last written
    processed,  \* history: the peers the last notification pass updated
    failedWrites, \* history: the peers a write of the main task's last step failed for
    seen,       \* history: per connection, the last event the main task handled and
                \* whether it has taken the connection's events in the order sent
    lines,      \* request lines read so far, over all connections
    call,       \* a single call of a method or helper: None, or Some of its arguments
    ret,        \* None, or Some of what the call returned
    cache,      \* Cache: txs and txids, the maps behind the two locks
    rwlock,     \* per map of the cache, its RwLock: the writer and the readers holding it
    callers,    \* per thread using the cache: the call it is in and where it is in it
    cacheLog    \* history: per map and key, the first add to take the write lock, the
                \* producers evaluated and the values the gets have returned

mempoolVars == << mempool, abort, lastSync >>

trackerVars == << mempool, abort, lastSync, chain, tick >>

serverVars == << pc, peers, stream, written, reported, processed, failedWrites, seen >>

envVars == << reader, chan, signals, lines >>

callVars == << call, ret >>

cacheVars == << cache, rwlock, callers, cacheLog >>

vars == << mempool, abort, lastSync, chain, tick, pc, peers, stream, reader, chan, signals,
           written, reported, processed, failedWrites, seen, lines, call, ret,
           cache, rwlock, callers, cacheLog >>

\* ------------------------------------------------------------ mempool.rs

\* Mempool::new
MempoolNew ==
    [ entries |-> << >>, by_funding |-> {}, by_spending |-> {}, histogram |-> {} ]

\* Mempool::get
MempoolGet(m, txid) ==
    IF txid \in DOMAIN m.entries THEN Some(m.entries[txid]) ELSE None

\* Mempool::filter_by_funding hits expect("missing funding mempool tx")
filter_by_funding_panics(m, scripthash) ==
    \E p \in m.by_funding : p[1] = scripthash /\ MempoolGet(m, p[2]) = None

\* Mempool::filter_by_funding: the entries of the range scan, in txid order
filter_by_funding(m, scripthash) ==
    LET txs == SetToSortedSeq({ p[2] : p \in { q \in m.by_funding : q[1] = scripthash } })
    IN  [ i \in 1..Len(txs) |-> m.entries[txs[i]] ]

\* Mempool::filter_by_spending hits expect("missing spending mempool tx")
filter_by_spending_panics(m, outpoint) ==
    \E p \in m.by_spending : p[1] = outpoint /\ MempoolGet(m, p[2]) = None

\* Mempool::filter_by_spending: the entries of the range scan, in txid order
filter_by_spending(m, outpoint) ==
    LET txs == SetToSortedSeq({ p[2] : p \in { q \in m.by_spending : q[1] = outpoint } })
    IN  [ i \in 1..Len(txs) |-> m.entries[txs[i]] ]

\* Mempool::add_entry, with the panic of its assert as the abort field
add_entry(m, txid, tx, entry) ==
    [ m EXCEPT
        !.by_spending = @ \cup { << tx.input[i], txid >> : i \in 1..Len(tx.input) },
        !.by_funding  = @ \cup { << ScriptHashNew(tx.output[i]), txid >> : i \in 1..Len(tx.output) },
        !.entries     = [ t \in (DOMAIN m.entries) \cup {txid} |->
                            IF t = txid
                            THEN [ txid |-> txid,
                                   tx |-> tx,
                                   vsize |-> entry.vsize,
                                   fee |-> entry.fees_base,
                                   has_unconfirmed_inputs |-> entry.depends # {} ]
                            ELSE m.entries[t] ] ]

\* the assert of Mempool::add_entry fails
add_entry_panics(m, txid) == txid \in DOMAIN m.entries

\* remove_entry leaving the by_funding pairs of the removed entry behind
remove_entry_keeps_funding(m, txid) ==
    LET entry == m.entries[txid]
    IN  [ m EXCEPT
            !.entries     = [ t \in (DOMAIN m.entries) \ {txid} |-> m.entries[t] ],
            !.by_spending = @ \ { << entry.tx.input[i], txid >> : i \in 1..Len(entry.tx.input) } ]

\* remove_entry erasing the index pairs but not the entry of the main map
remove_entry_keeps_entry(m, txid) ==
    LET entry == m.entries[txid]
    IN  [ m EXCEPT
            !.by_spending = @ \ { << entry.tx.input[i], txid >> : i \in 1..Len(entry.tx.input) },
            !.by_funding  = @ \ { << ScriptHashNew(entry.tx.output[i]), txid >> :
                                    i \in 1..Len(entry.tx.output) } ]

\* Mempool::remove_entry (its expect is remove_entry_panics)
remove_entry(m, txid) ==
    LET entry == m.entries[txid]
    IN  [ m EXCEPT
            !.entries     = [ t \in (DOMAIN m.entries) \ {txid} |-> m.entries[t] ],
            !.by_spending = @ \ { << entry.tx.input[i], txid >> : i \in 1..Len(entry.tx.input) },
            !.by_funding  = @ \ { << ScriptHashNew(entry.tx.output[i]), txid >> :
                                    i \in 1..Len(entry.tx.output) } ]

\* the expect of Mempool::remove_entry fails
remove_entry_panics(m, txid) == txid \notin DOMAIN m.entries

\* the removal loop leaving after its first txid
remove_entries_first_only(m, to_remove) ==
    IF to_remove = {} THEN m
    ELSE remove_entry(m, CHOOSE t \in to_remove : TRUE)

RECURSIVE remove_entries(_, _)
\* Mempool::sync, lines 81-83: remove_entry for each txid of to_remove
remove_entries(m, to_remove) ==
    IF to_remove = {} THEN m
    ELSE LET txid == CHOOSE t \in to_remove : TRUE
         IN  remove_entries(remove_entry(m, txid), to_remove \ {txid})

RECURSIVE add_entries(_, _, _)
\* Mempool::sync, lines 97-99: add_entry for each fetched (txid, tx, entry)
add_entries(m, fetched, reply) ==
    IF fetched = {} THEN m
    ELSE LET txid == CHOOSE t \in fetched : TRUE
         IN  add_entries(add_entry(m, txid, Unwrap(reply.raw[txid]), Unwrap(reply.entry[txid])),
                         fetched \ {txid}, reply)

RECURSIVE SumOver(_, _)
\* the sum of f[x] over the finite set S
SumOver(f, S) ==
    IF S = {} THEN 0
    ELSE LET x == CHOOSE y \in S : TRUE IN f[x] + SumOver(f, S \ {x})

\* The fee histogram of a set of entries: one [fee_rate, vsize] pair per
\* non-empty fee-rate bucket (fee / vsize), carrying the bucket's total vsize.
FeeHistogramOf(entries) ==
    LET rate  == [ t \in DOMAIN entries |-> entries[t].fee \div entries[t].vsize ]
        vsize == [ t \in DOMAIN entries |-> entries[t].vsize ]
    IN  { << r, SumOver(vsize, { t \in DOMAIN entries : rate[t] = r }) >> :
            r \in { rate[t] : t \in DOMAIN entries } }

\* The recomputation of the fee histogram that ends a successful sync.
update_histogram(m) == [ m EXCEPT !.histogram = FeeHistogramOf(m.entries) ]

\* Mempool::fees_histogram
fees_histogram(m) == m.histogram

\* Mempool::sync, line 77
to_add_of(new_txids, old_txids) == new_txids \ old_txids

\* Mempool::sync, line 78
to_remove_of(new_txids, old_txids) == old_txids \ new_txids

\* the fetch keeping only the first txid whose two fetches succeed
fetched_entries_first_only(to_add, reply) ==
    LET ok == { t \in to_add : IsSome(reply.raw[t]) /\ IsSome(reply.entry[t]) }
    IN  { t \in ok : \A u \in ok : t <= u }

\* Mempool::sync, lines 84-95: filter_map keeps a txid when both fetches succeed
fetched_entries(to_add, reply) ==
    { t \in to_add : IsSome(reply.raw[t]) /\ IsSome(reply.entry[t]) }

\* Mempool::sync against one upstream reply:
\*   reply.txids    Option of the txid set of getrawmempool
\*   reply.raw[t]   Option of the transaction of getrawtransaction
\*   reply.entry[t] Option of the result of getmempoolentry
\* The result names the mempool left behind, the panic hit (if any), and the
\* txids whose two fetches were issued.
Mempool_sync(m, reply) ==
    IF reply.txids = None
    THEN [ result |-> "err", mempool |-> m, abort |-> "", fetched |-> {} ]
    ELSE
      LET new_txids == Unwrap(reply.txids)
          old_txids == DOMAIN m.entries
          to_add    == to_add_of(new_txids, old_txids)
          to_remove == to_remove_of(new_txids, old_txids)
          entries   == fetched_entries(to_add, reply)
      IN  IF \E t \in to_remove : remove_entry_panics(m, t)
          THEN [ result |-> "panic", mempool |-> m,
                 abort |-> "missing tx from mempool", fetched |-> {} ]
          ELSE LET m1 == remove_entries(m, to_remove)
               IN  IF \E t \in entries : add_entry_panics(m1, t)
                   THEN [ result |-> "panic", mempool |-> m1,
                          abort |-> "duplicate mempool txid", fetched |-> to_add ]
                   ELSE [ result |-> "ok",
                          mempool |-> update_histogram(add_entries(m1, entries, reply)),
                          abort |-> "", fetched |-> to_add ]

\* The replies the upstream node can give to one sync of a mirror holding the
\* txids old: getrawmempool fails, or reports any set of txids; each fetch of
\* a newly reported txid succeeds or fails on its own; the node reports any
\* of a transaction's possible parents as unconfirmed. held are the txids
\* the node's mempool may hold.
UpstreamRepliesOver(old, held) ==
    { [ txids |-> None, raw |-> [ t \in Txids |-> None ], entry |-> [ t \in Txids |-> None ] ] }
    \cup
    UNION { UNION { { [ txids |-> Some(N),
              raw   |-> [ t \in Txids |-> IF outcome[t] = "raw_failed"
                                          THEN None ELSE Some(TransactionOf(t)) ],
              entry |-> [ t \in Txids |-> IF outcome[t] = "entry_failed"
                                          THEN None
                                          ELSE Some(MempoolEntryResult(t, ParentsOf(t) \cap dep)) ] ] :
              outcome \in { o \in [ Txids -> {"ok", "raw_failed", "entry_failed"} ] :
                              \A t \in Txids \ (N \ old) : o[t] = "ok" } } :
            dep \in SUBSET { p \in Txids : \E t \in N \ old : p \in ParentsOf(t) } } :
          N \in SUBSET held }

\* the replies when the node's mempool may hold any of the txids
UpstreamReplies(old) == UpstreamRepliesOver(old, Txids)

\* -------------------------------------------------------------- cache.rs

\* the threads that share one Cache
NumCallers == 2
\* the txids, and the block hashes, the threads use the cache with
NumCacheKeys == 2
Callers == 1..NumCallers

CacheKeys == 1..NumCacheKeys

\* the two maps of the Cache
CacheMaps == {"txs", "txids"}

\* the projections a caller passes to get_tx and get_txids
Projections == {"whole", "len"}

\* f(value) for a projection f
Apply(f, value) == << f, value >>

\* Cache::new
Cache_new == [ txs |-> << >>, txids |-> << >> ]

\* an RwLock nobody holds
RwLock_new == [ writer |-> None, readers |-> {} ]

\* HashMap::entry(key).or_insert_with(f), which stores over what the map holds
or_insert_with_overwrite(map, key, value) ==
    [ map |-> (key :> value) @@ map, evaluated |-> TRUE ]

\* HashMap::entry(key).or_insert_with(f): the map afterwards, and whether f
\* was called; value is what f yields when called.
or_insert_with(map, key, value) ==
    IF key \in DOMAIN map
    THEN [ map |-> map, evaluated |-> FALSE ]
    ELSE [ map |-> (key :> value) @@ map, evaluated |-> TRUE ]

\* the transaction the producer passed to add_tx yields
ProducedTx(txid, v) == [ txid |-> txid, body |-> v ]

\* block.txdata.iter().map(|tx| tx.txid()).collect() for the block whose
\* transactions are 1 .. v
CollectedTxids(v) == [ i \in 1..v |-> i ]

\* Cache::add_tx, under the write lock of txs
add_tx(txs, txid, v) == or_insert_with(txs, txid, ProducedTx(txid, v))

\* Cache::add_txids, under the write lock of txids
add_txids(txids, blockhash, v) == or_insert_with(txids, blockhash, CollectedTxids(v))

\* Cache::get_tx, under the read lock of txs
get_tx(txs, txid, f) ==
    IF txid \in DOMAIN txs THEN Some(Apply(f, txs[txid])) ELSE None

\* Cache::get_txids, under the read lock of txids
get_txids(txids, blockhash, f) ==
    IF blockhash \in DOMAIN txids THEN Some(Apply(f, txids[blockhash])) ELSE None

\* a thread outside the cache
Idle == [ op |-> "", key |-> 0, value |-> 0, f |-> "", at |-> "idle", ret |-> None ]

\* nothing has happened to a key yet
NoLog == [ first |-> None, evaluated |-> 0, by |-> None, gotten |-> {} ]

InitCache ==
    /\ cache = Cache_new
    /\ rwlock = [ m \in CacheMaps |-> RwLock_new ]
    /\ callers = [ t \in Callers |-> Idle ]
    /\ cacheLog = [ m \in CacheMaps |-> [ k \in CacheKeys |-> NoLog ] ]

\* ------------------------------------------- specification of the mirror

\* The process as main() finds it: an empty mirror, the chain at genesis,
\* no connection accepted.
InitProcess ==
    /\ mempool = MempoolNew
    /\ abort = ""
    /\ lastSync = [ result |-> "none", reply |-> None, old |-> << >>,
                    fetched |-> {}, skipped |-> {} ]
    /\ chain = << >>
    /\ tick = [ index |-> "none", mempool |-> "none" ]
    /\ pc = "main"
    /\ peers = << >>
    /\ stream = << >>
    /\ reader = << >>
    /\ chan = << >>
    /\ signals = << >>
    /\ written = << >>
    /\ reported = << >>
    /\ processed = {}
    /\ failedWrites = {}
    /\ seen = << >>
    /\ lines = 0
    /\ InitCache

Init == InitProcess /\ call = None /\ ret = None

InitMempool == Init

\* The txids whose fetch failed in the latest syncs and that the upstream has
\* reported ever since: after a successful sync, those reported and not held.
Skipped ==
    IF lastSync.result = "ok"
    THEN Unwrap(Unwrap(lastSync.reply).txids) \ DOMAIN mempool.entries
    ELSE lastSync.skipped

\* One call of Mempool::sync against an arbitrary upstream reply.
SyncMempool ==
    /\ abort = ""
    /\ \E reply \in UpstreamReplies(DOMAIN mempool.entries) :
         LET r == Mempool_sync(mempool, reply)
         IN  /\ mempool' = r.mempool
             /\ abort' = r.abort
             /\ lastSync' = [ result |-> r.result, reply |-> Some(reply),
                              old |-> mempool.entries, fetched |-> r.fetched,
                              skipped |-> Skipped ]
    /\ UNCHANGED << callVars, cacheVars, chain, tick, serverVars, envVars >>

NextMempool == SyncMempool

SpecMempool == InitMempool /\ [][NextMempool]_vars

\* ------------------------------------------------ chain, index, status

BlockIds == 1..MaxHeight

\* The chains the index can hold: genesis (block 0, height 0) below a
\* sequence of distinct blocks; chain[h] is the block at height h.
Chains ==
    UNION { { c \in [ 1..n -> BlockIds ] : \A i, j \in 1..n : i # j => c[i] # c[j] } :
            n \in 0..MaxHeight }

\* Chain::tip
ChainTip(chn) == IF chn = << >> THEN 0 ELSE chn[Len(chn)]

\* Chain::height
ChainHeight(chn) == Len(chn)

\* Chain::get_block_header
get_block_header(chn, height) ==
    IF height = 0 THEN Some(0)
    ELSE IF height \in 1..Len(chn) THEN Some(chn[height]) ELSE None

\* serialize(header).to_hex()
HeaderHex(header) == << "header", header >>

\* Chain::update on the headers the peer returns for the locator: none, or
\* a non-empty run of headers anchored at a block of the current chain (an
\* extension of the tip, or a reorg that truncates to the anchor first).
ChainUpdates(chn) ==
    { c \in Chains :
        \/ c = chn
        \/ \E k \in 0..Len(chn) :
             /\ Len(c) > k
             /\ SubSeq(c, 1, k) = SubSeq(chn, 1, k)
             /\ (k < Len(chn) => c[k + 1] # chn[k + 1]) }

\* The transactions of block b besides its coinbase: block b confirms the
\* transaction with txid b.
BlockTxids(b) == {b} \cap Txids

\* The script of the output an outpoint names; the outputs of the confirmed
\* funding transaction 0 all pay to script 2.
ScriptOfOutPoint(outpoint) ==
    IF outpoint[1] = 0 THEN 2
    ELSE LET out == TransactionOf(outpoint[1]).output
         IN  IF outpoint[2] + 1 \in 1..Len(out) THEN out[outpoint[2] + 1] ELSE 0

\* transaction t creates an output of, or spends an output of, the script
Touches(t, scripthash) ==
    LET tx == TransactionOf(t)
    IN  \/ \E i \in 1..Len(tx.output) : ScriptHashNew(tx.output[i]) = scripthash
        \/ \E i \in 1..Len(tx.input) : ScriptHashNew(ScriptOfOutPoint(tx.input[i])) = scripthash

RECURSIVE HistoryFrom(_, _, _)
\* Index::filter_by_scripthash from height h up: the entries of the
\* script's confirmed history in (height, position) order
HistoryFrom(chn, scripthash, h) ==
    IF h > Len(chn) THEN << >>
    ELSE (IF \E t \in BlockTxids(chn[h]) : Touches(t, scripthash)
          THEN << [ txid |-> chn[h], height |-> h ] >>
          ELSE << >>) \o HistoryFrom(chn, scripthash, h + 1)

\* Index::filter_by_scripthash
filter_by_scripthash(chn, scripthash) == HistoryFrom(chn, scripthash, 1)

\* the transactions confirmed in the chain
ConfirmedTxids(chn) == UNION { BlockTxids(chn[h]) : h \in 1..Len(chn) }

\* The outpoints whose output pays to the script.
OutPointsOf(scripthash) ==
    { op \in ({ OutPoint(0, v) : v \in 0..NumTx } \cup
              { OutPoint(t, v) : t \in Txids, v \in 0..1 }) :
        /\ ScriptOfOutPoint(op) # 0
        /\ ScriptHashNew(ScriptOfOutPoint(op)) = scripthash }

\* SHA-256 of the framed history (collision-free here)
Sha256(framing) == << "sha256", framing >>

\* the status hash of a confirmed list and a mempool list: null when both
\* are empty, else the digest of "<txid>:<height>:" over both in order
StatusHashOf(confirmed, mempoolList) ==
    IF confirmed = << >> /\ mempoolList = << >> THEN None
    ELSE Some(Sha256([ i \in 1..(Len(confirmed) + Len(mempoolList)) |->
                        IF i <= Len(confirmed)
                        THEN << confirmed[i].txid, confirmed[i].height >>
                        ELSE << mempoolList[i - Len(confirmed)].txid,
                                mempoolList[i - Len(confirmed)].height >> ]))

\* Status::new
StatusNew(scripthash) ==
    [ scripthash |-> scripthash, confirmed |-> << >>, mempool |-> << >>, statushash |-> None ]

\* the txids of the mirror's entries that fund the script or spend one of
\* its outputs
MempoolTouching(m, scripthash) ==
    { e.txid : e \in Range(filter_by_funding(m, scripthash)) } \cup
    { e.txid : e \in UNION { Range(filter_by_spending(m, op)) : op \in OutPointsOf(scripthash) } }

\* the effective height of a mirror entry: -1 with an unconfirmed input, else 0
MempoolHeight(m, t) == IF m.entries[t].has_unconfirmed_inputs THEN -1 ELSE 0

\* the entry of a script's mempool list for the mirror entry t
MempoolItem(m, t) == [ txid |-> t, height |-> MempoolHeight(m, t), fee |-> m.entries[t].fee ]

\* the mempool list for sort keys (height + 1) * (NumTx + 1) + txid in order
MempoolListFrom(m, keys) == [ i \in 1..Len(keys) |-> MempoolItem(m, keys[i] % (NumTx + 1)) ]

\* the mempool list of a script: the entries funding it or spending one of
\* its outputs, with their effective height, in (height, txid) order
MempoolListOf(m, scripthash) ==
    MempoolListFrom(m, SetToSortedSeq({ (MempoolHeight(m, t) + 1) * (NumTx + 1) + t :
                                          t \in MempoolTouching(m, scripthash) }))

\* the status holding the histories read, and their hash
StatusWith(status, confirmed, mempoolList) ==
    [ status EXCEPT !.confirmed = confirmed,
                    !.mempool = mempoolList,
                    !.statushash = StatusHashOf(confirmed, mempoolList) ]

\* Status::sync: re-read the confirmed history and the mempool membership
\* and recompute the hash
StatusSync(status, chn, m) ==
    StatusWith(status, filter_by_scripthash(chn, status.scripthash),
               MempoolListOf(m, status.scripthash))

\* ------------------------------------------------------------ tracker.rs

\* Tracker::subscribe
Tracker_subscribe(script_hash) == StatusNew(script_hash)

\* a Tracker::update_status that reports a change whatever the previous hash
StatusChange_always(prev_statushash, synced) ==
    [ status |-> synced, changed |-> TRUE ]

\* Tracker::update_status, line 93: Ok(prev_statushash != status.statushash())
StatusChange(prev_statushash, synced) ==
    [ status |-> synced, changed |-> prev_statushash # synced.statushash ]

\* Tracker::update_status: the status after its sync, and whether its hash
\* changed
update_status(status, chn, m) ==
    StatusChange(status.statushash, StatusSync(status, chn, m))

\* Tracker::get_history
get_history(status) == status.confirmed \o [ i \in 1..Len(status.mempool) |->
                          [ txid |-> status.mempool[i].txid, height |-> status.mempool[i].height ] ]

\* ----------------------------------------------------------- electrum.rs

\* HashMap::insert: the value of an existing key is replaced
HashMapInsert(map, key, value) ==
    [ k \in (DOMAIN map) \cup {key} |-> IF k = key THEN value ELSE map[k] ]

\* HashMap::remove
HashMapRemove(map, key) == [ k \in (DOMAIN map) \ {key} |-> map[k] ]

\* Client::default
ClientDefault == [ tip |-> None, status |-> << >> ]

\* The script hashes a client can name.
ScriptHashes == { ScriptHashNew(script) : script \in 1..2 }

\* json!({"jsonrpc": jsonrpc, "id": id, "result": value})
ResultResponse(jsonrpc, id, value) ==
    [ kind |-> "result", jsonrpc |-> jsonrpc, id |-> id, method |-> "", payload |-> value ]

\* json!({"jsonrpc": jsonrpc, "id": id, "error": {"code": 1, "message": msg}})
ErrorResponse(jsonrpc, id, msg) ==
    [ kind |-> "error", jsonrpc |-> jsonrpc, id |-> id, method |-> "",
      payload |-> [ code |-> 1, message |-> msg ] ]

\* notification(method, params)
notification(method, params) ==
    [ kind |-> "notification", jsonrpc |-> "2.0", id |-> << >>, method |-> method,
      payload |-> params ]

\* Result<Value> of a method
Ok(value) == [ ok |-> TRUE, value |-> value ]

Err(msg) == [ ok |-> FALSE, value |-> msg ]

\* from_value::<(ScriptHash,)>(params) succeeds
IsScriptHashParams(params) == Len(params) = 1 /\ params[1] \in ScriptHashes

\* a Rpc::headers_subscribe that answers without recording the tip
headers_subscribe_keeps_tip(client, chn) ==
    [ client |-> client,
      result |-> Ok([ hex |-> HeaderHex(Unwrap(get_block_header(chn, ChainHeight(chn)))),
                      height |-> ChainHeight(chn) ]) ]

\* Rpc::headers_subscribe
headers_subscribe(client, chn) ==
    LET height == ChainHeight(chn)
        header == Unwrap(get_block_header(chn, height))
    IN  [ client |-> [ client EXCEPT !.tip = Some(ChainTip(chn)) ],
          result |-> Ok([ hex |-> HeaderHex(header), height |-> height ]) ]

\* a get_history that would answer an empty history for a script not subscribed
scripthash_get_history_lenient(client, params) ==
    [ client |-> client,
      result |-> IF params[1] \in DOMAIN client.status
                 THEN Ok(get_history(client.status[params[1]]))
                 ELSE Ok(<< >>) ]

\* Rpc::scripthash_get_history
scripthash_get_history(client, params) ==
    LET scripthash == params[1]
    IN  [ client |-> client,
          result |-> IF scripthash \in DOMAIN client.status
                     THEN Ok(get_history(client.status[scripthash]))
                     ELSE Err("no subscription for scripthash") ]

\* Rpc::scripthash_subscribe
scripthash_subscribe(client, params) ==
    LET scripthash == params[1]
        status     == Tracker_subscribe(scripthash)
        statushash == status.statushash
    IN  [ client |-> [ client EXCEPT !.status = HashMapInsert(@, scripthash, status) ],
          result |-> Ok(statushash) ]

\* Rpc::get_fee_histogram
get_fee_histogram(client, m) == [ client |-> client, result |-> Ok(fees_histogram(m)) ]

\* const PROTOCOL_VERSION
PROTOCOL_VERSION == "1.4"

\* format!("electrs/{}", ELECTRS_VERSION)
ServerId == "electrs/ELECTRS_VERSION"

\* enum Version: a JSON string is Single, a JSON array of two strings Range
Single(v) == << "Single", v >>

Range2(min, max) == << "Range", min, max >>

\* The version strings and client ids a client can send.
VersionStrings == { "1.4", "1.3", "1.5", "1.4.1", "1.40", "" }

ClientIds == { "electrum", "" }

Versions ==
    { Single(v) : v \in VersionStrings }
    \cup { Range2(min, max) : min \in VersionStrings, max \in VersionStrings }

\* from_value::<(String, Version)>(params) succeeds
IsVersionParams(params) ==
    Len(params) = 2 /\ params[1] \in ClientIds /\ params[2] \in Versions

\* a Rpc::version that would accept the ranges that hold the protocol version
version_range_accepted(client, params) ==
    [ client |-> client,
      result |-> IF \/ params[2] = Single(PROTOCOL_VERSION)
                    \/ params[2][1] = "Range" /\ PROTOCOL_VERSION \in { params[2][2], params[2][3] }
                 THEN Ok(<< ServerId, PROTOCOL_VERSION >>)
                 ELSE Err("requested version not supported") ]

\* Rpc::version
version(client, params) ==
    LET client_version == params[2]
    IN  [ client |-> client,
          result |-> IF client_version[1] = "Single" /\ client_version[2] = PROTOCOL_VERSION
                     THEN Ok(<< ServerId, PROTOCOL_VERSION >>)
                     ELSE Err("requested version not supported") ]

\* let max_count = 2016usize
max_count == 2016

\* usize subtraction and addition of a release build (wrapping)
UsizeSub(a, b) == (a - b) % (2 ^ UsizeBits)

UsizeAdd(a, b) == (a + b) % (2 ^ UsizeBits)

\* what a call leaves: its value, or the panic that ended it; read is the
\* history of the heights whose header it asked the chain for
Returns(value, read) == [ panic |-> "", value |-> value, read |-> read ]

Panics(msg, read) == [ panic |-> msg, value |-> << >>, read |-> read ]

\* Rpc::block_headers, lines 192-197: the headers of count heights from
\* start_height, each got with get_block_header(height).unwrap()
HeadersValue(chn, start_height, count) ==
    IF \E height \in start_height..(start_height + count - 1) :
          get_block_header(chn, height) = None
    THEN Panics("called Option::unwrap() on a None value",
                { height \in start_height..(start_height + count - 1) :
                    \A below \in start_height..(height - 1) :
                       get_block_header(chn, below) # None })
    ELSE Returns([ count |-> count,
                   hex |-> [ i \in 1..count |->
                               HeaderHex(Unwrap(get_block_header(chn, start_height + i - 1))) ],
                   max |-> max_count ],
                 start_height..(start_height + count - 1))

\* a Rpc::block_headers that would not cap the count at max_count
block_headers_uncapped(chn, start_height, count) ==
    { HeadersValue(chn, start_height,
                   Min2(count, UsizeAdd(UsizeSub(ChainHeight(chn), start_height), 1))) }

\* Rpc::block_headers: the outcomes of the builds. chain.height() -
\* start_height overflows for a start above the tip: a build with overflow
\* checks panics there, a release build wraps.
block_headers(chn, start_height, count) ==
    { HeadersValue(chn, start_height,
                   Min2(Min2(count, max_count),
                        UsizeAdd(UsizeSub(ChainHeight(chn), start_height), 1))) }
    \cup IF start_height > ChainHeight(chn)
         THEN { Panics("attempt to subtract with overflow", {}) }
         ELSE {}

\* <T as Hash>::hash(&[&left[..], &right[..]].concat()): the double SHA256
\* of the two nodes' bytes, taken as free of collisions
HashPair(left, right) == << "hash", left, right >>

\* TxMerkleNode::from_hash(txid.as_hash()): the same 32 bytes as a node
TxMerkleNode_from_hash(txid) == txid

\* the leaves of a block's txids
MerkleNodes(txids) == [ i \in 1..Len(txids) |-> TxMerkleNode_from_hash(txids[i]) ]

\* lines 325-328: an odd level gets its last node once more
PushLast(hashes) ==
    IF Len(hashes) % 2 # 0 THEN Append(hashes, hashes[Len(hashes)]) ELSE hashes

\* lines 332-340: chunks(2) of an even level, each pair hashed
HashChunks(hashes) ==
    [ i \in 1..(Len(hashes) \div 2) |-> HashPair(hashes[2 * i - 1], hashes[2 * i]) ]

\* line 329: the index of the sibling
SiblingIndex(index) == IF index % 2 = 0 THEN index + 1 ELSE index - 1

RECURSIVE create_merkle_branch_own_node(_, _)
\* a create_merkle_branch that would push the node at index, not its sibling
create_merkle_branch_own_node(hashes, index) ==
    IF Len(hashes) <= 1 THEN << >>
    ELSE IF index + 1 > Len(PushLast(hashes))
    THEN << "index out of bounds" >>
    ELSE << PushLast(hashes)[index + 1] >>
         \o create_merkle_branch_own_node(HashChunks(PushLast(hashes)), index \div 2)

RECURSIVE create_merkle_branch(_, _)
\* create_merkle_branch: the loop as a recursion on the level; index counts
\* from 0, and hashes[index] past the end panics
create_merkle_branch(hashes, index) ==
    IF Len(hashes) <= 1 THEN << >>
    ELSE IF SiblingIndex(index) + 1 > Len(PushLast(hashes))
    THEN << "index out of bounds" >>
    ELSE << PushLast(hashes)[SiblingIndex(index) + 1] >>
         \o create_merkle_branch(HashChunks(PushLast(hashes)), index \div 2)

RECURSIVE ProofLoop(_, _, _)
\* Proof::create, lines 25-43: the loop, with the proof so far; it leaves
\* the proof and the pos it has halved
ProofLoop(hashes, pos, proof) ==
    IF Len(hashes) <= 1 THEN [ proof |-> proof, pos |-> pos ]
    ELSE ProofLoop(HashChunks(PushLast(hashes)), SiblingIndex(pos) \div 2,
                   Append(proof, PushLast(hashes)[SiblingIndex(pos) + 1]))

\* txids.iter().position(|current_txid| *current_txid == txid)
Position(txids, txid) ==
    IF \E i \in 1..Len(txids) : txids[i] = txid
    THEN Some((CHOOSE i \in 1..Len(txids) :
                  txids[i] = txid /\ \A j \in 1..(i - 1) : txids[j] # txid) - 1)
    ELSE None

\* Proof::create
Proof_create(txid, txids, height) ==
    IF Position(txids, txid) = None
    THEN Err("missing tx")
    ELSE Ok([ proof |-> ProofLoop(MerkleNodes(txids), Unwrap(Position(txids, txid)), << >>).proof,
              pos |-> ProofLoop(MerkleNodes(txids), Unwrap(Position(txids, txid)), << >>).pos,
              height |-> height ])

\* TxMerkleNode::to_hex
NodeHex(node) == << "hex", node >>

\* Proof::to_value
Proof_to_value(proof) ==
    [ block_height |-> proof.height, pos |-> proof.pos,
      merkle |-> [ i \in 1..Len(proof.proof) |-> NodeHex(proof.proof[i]) ] ]

\* Rpc::transaction_get_merkle, lines 286-298, for a block at height whose
\* txids the node has reported
transaction_get_merkle(txid, txids, height) ==
    IF Position(txids, txid) = None
    THEN Err("missing tx")
    ELSE Ok([ block_height |-> height, pos |-> Unwrap(Position(txids, txid)),
              merkle |-> [ i \in 1..Len(create_merkle_branch(MerkleNodes(txids),
                                                             Unwrap(Position(txids, txid)))) |->
                             NodeHex(create_merkle_branch(MerkleNodes(txids),
                                                          Unwrap(Position(txids, txid)))[i]) ] ])

\* The methods Rpc::handle_request dispatches on, as far as modelled.
Methods ==
    { "blockchain.scripthash.get_history", "blockchain.scripthash.subscribe",
      "blockchain.headers.subscribe", "mempool.get_fee_histogram", "server.ping",
      "server.version" }

\* Rpc::handle_request, lines 127-153: from_value(params)? fails
ParamsRejected(method, params) ==
    \/ /\ method \in { "blockchain.scripthash.get_history", "blockchain.scripthash.subscribe" }
       /\ ~IsScriptHashParams(params)
    \/ /\ method = "server.version"
       /\ ~IsVersionParams(params)

\* Rpc::handle_request, lines 127-153: the method called on the parsed params
Dispatch(client, method, params, chn, m) ==
    CASE method = "blockchain.scripthash.get_history" -> scripthash_get_history(client, params)
      [] method = "blockchain.scripthash.subscribe"   -> scripthash_subscribe(client, params)
      [] method = "blockchain.headers.subscribe"      -> headers_subscribe(client, chn)
      [] method = "mempool.get_fee_histogram"         -> get_fee_histogram(client, m)
      [] method = "server.ping"                       -> [ client |-> client, result |-> Ok(None) ]
      [] method = "server.version"                    -> version(client, params)

\* format!("RPC failed: {:#}", err)
RpcFailed(err) == << "RPC failed: ", err >>

\* Rpc::handle_request, lines 155-163: the JSON response of a method's result
\* or error
Respond(value, r) ==
    [ ok |-> TRUE, client |-> r.client,
      value |-> IF r.result.ok
                THEN ResultResponse(value.jsonrpc, value.id, r.result.value)
                ELSE ErrorResponse(value.jsonrpc, value.id, RpcFailed(r.result.value)) ]

\* Rpc::handle_request: Err for a value that is no request, for an unknown
\* method (bail!) and for params of the wrong shape (?); else Ok with the
\* JSON response of the method's result or error.
Rpc_handle_request(client, value, chn, m) ==
    IF value.kind # "request"
    THEN [ ok |-> FALSE, client |-> client, value |-> "invalid request" ]
    ELSE IF value.method \notin Methods
    THEN [ ok |-> FALSE, client |-> client, value |-> "unknown method" ]
    ELSE IF ParamsRejected(value.method, value.params)
    THEN [ ok |-> FALSE, client |-> client, value |-> "invalid params" ]
    ELSE Respond(value, Dispatch(client, value.method, value.params, chn, m))

\* Rpc::update_client, lines 88-102: the notifications of the statuses whose
\* hash changed, in script order
StatusNotifications(updates, scripts) ==
    [ i \in 1..Len(scripts) |->
        notification("blockchain.scripthash.subscribe",
                     << ScriptHashNew(scripts[i]),
                        updates[ScriptHashNew(scripts[i])].status.statushash >>) ]

\* Rpc::update_client, lines 104-106: the client subscribed to the headers
\* and the tip is not the one recorded for it
TipMoved(client, chn) == IsSome(client.tip) /\ Unwrap(client.tip) # ChainTip(chn)

\* a headers notification that would carry the genesis header whatever the
\* chain the sync left
HeadersNotifications_genesis(client, chn) ==
    IF TipMoved(client, chn)
    THEN << notification("blockchain.headers.subscribe",
                << [ hex |-> HeaderHex(Unwrap(get_block_header(chn, 0))), height |-> 0 ] >>) >>
    ELSE << >>

\* Rpc::update_client, lines 104-115: the headers notification of a moved tip
HeadersNotifications(client, chn) ==
    IF TipMoved(client, chn)
    THEN << notification("blockchain.headers.subscribe",
                << [ hex |-> HeaderHex(Unwrap(get_block_header(chn, ChainHeight(chn)))),
                     height |-> ChainHeight(chn) ] >>) >>
    ELSE << >>

\* Rpc::update_client for the updates of the client's statuses: the client
\* after the update and the notifications, the status notifications before
\* the headers one
UpdateClientWith(client, chn, updates) ==
    [ client |-> [ tip |-> IF TipMoved(client, chn) THEN Some(ChainTip(chn)) ELSE client.tip,
                   status |-> [ sh \in DOMAIN updates |-> updates[sh].status ] ],
      notifications |->
          StatusNotifications(updates,
              SetToSortedSeq({ sh[2] : sh \in { c \in DOMAIN updates : updates[c].changed } }))
          \o HeadersNotifications(client, chn) ]

\* Rpc::update_client
Rpc_update_client(client, chn, m) ==
    UpdateClientWith(client, chn,
        [ sh \in DOMAIN client.status |-> update_status(client.status[sh], chn, m) ])

\* ------------------------------------------------------------- server.rs

\* A request line as the client writes it; a client is free to choose the
\* id, and here it names the request.
Request(method, params) ==
    [ kind |-> "request", id |-> << method, params >>, jsonrpc |-> "2.0",
      method |-> method, params |-> params ]

\* a line that is not JSON (from_str fails)
NotJson ==
    [ kind |-> "not_json", id |-> << >>, jsonrpc |-> "", method |-> "", params |-> << >> ]

\* a line of JSON that is no request envelope (from_value::<Request> fails)
NotRequest ==
    [ kind |-> "not_request", id |-> << >>, jsonrpc |-> "", method |-> "", params |-> << >> ]

\* the line field of an event that carries none
NoLine ==
    [ kind |-> "none", id |-> << >>, jsonrpc |-> "", method |-> "", params |-> << >> ]

\* The lines the clients send.
Lines ==
    { NotJson, NotRequest,
      Request("server.unknown", << >>),
      Request("blockchain.scripthash.subscribe", << >>),
      Request("blockchain.headers.subscribe", << >>),
      Request("mempool.get_fee_histogram", << >>) }
    \cup { Request("blockchain.scripthash.subscribe", << sh >>) : sh \in ScriptHashes }
    \cup { Request("blockchain.scripthash.get_history", << sh >>) : sh \in ScriptHashes }

\* Event { peer_id, msg }
Event(peer_id, msg, line) == [ peer_id |-> peer_id, msg |-> msg, line |-> line ]

\* history: the event as the n-th one its reader sent
Tagged(event, n) ==
    [ peer_id |-> event.peer_id, msg |-> event.msg, line |-> event.line, seq |-> n ]

\* history: nothing of a connection has been handled yet
NoneSeen == [ n |-> 0, last |-> "", ordered |-> TRUE ]

\* history: the number (modulo TagModulus) of the event the reader of
\* connection p sent last
Pushed(p) ==
    (seen[p].n + Cardinality({ i \in 1..Len(chan) : chan[i].peer_id = p })) % TagModulus

\* send: write_all of each value; a failed write returns the error
send(values, writeFails) ==
    IF values # << >> /\ writeFails
    THEN [ ok |-> FALSE, sent |-> << >> ]
    ELSE [ ok |-> TRUE, sent |-> values ]

\* handle_request, lines 121-124: the ? on the Rpc's result, then send
send_response(client, r, writeFails) ==
    IF ~r.ok
    THEN [ ok |-> FALSE, client |-> client, sent |-> << >>, wfail |-> FALSE ]
    ELSE [ ok |-> send(<< r.value >>, writeFails).ok, client |-> r.client,
           sent |-> send(<< r.value >>, writeFails).sent,
           wfail |-> ~send(<< r.value >>, writeFails).ok ]

\* handle_request: parse the line, let the Rpc handle it, send the response
handle_request(client, line, writeFails, chn, m) ==
    IF line.kind = "not_json"
    THEN [ ok |-> FALSE, client |-> client, sent |-> << >>, wfail |-> FALSE ]
    ELSE send_response(client, Rpc_handle_request(client, line, chn, m), writeFails)

\* history: the key under which the header last written to a client is kept
HeadersKey == << "headers", 0 >>

\* history: what the client is told by the value written to it
ReportedBy(rep, v) ==
    IF v.kind = "result" /\ v.id[1] = "blockchain.scripthash.subscribe"
    THEN HashMapInsert(rep, v.id[2][1], v.payload)
    ELSE IF v.kind = "notification" /\ v.method = "blockchain.scripthash.subscribe"
    THEN HashMapInsert(rep, v.payload[1], v.payload[2])
    ELSE IF v.kind = "result" /\ v.id[1] = "blockchain.headers.subscribe"
    THEN HashMapInsert(rep, HeadersKey, v.payload)
    ELSE IF v.kind = "notification" /\ v.method = "blockchain.headers.subscribe"
    THEN HashMapInsert(rep, HeadersKey, v.payload[1])
    ELSE rep

RECURSIVE ReportedAfter(_, _)
\* history: per script the status hash, and the header, last written to a
\* client, after writing values
ReportedAfter(rep, values) ==
    IF values = << >> THEN rep
    ELSE ReportedAfter(ReportedBy(rep, Head(values)), Tail(values))

\* handle, lines 97-111: the peer keeps the client the request left, or on
\* an error is removed and its stream shut down
handled(st, peer_id, r) ==
    IF r.ok
    THEN [ st EXCEPT !.peers[peer_id] = r.client,
                     !.written[peer_id] = @ \o r.sent,
                     !.reported[peer_id] = ReportedAfter(@, r.sent) ]
    ELSE [ st EXCEPT !.peers = HashMapRemove(@, peer_id),
                     !.stream[peer_id] = "shutdown",
                     !.failed = IF r.wfail THEN @ \cup { peer_id } ELSE @ ]

\* a handle that would take a request of an unknown peer as a new peer's
handle_unknown_inserted(st, event, failing, chn, m) ==
    CASE event.msg = "New" ->
           [ st EXCEPT !.peers = HashMapInsert(@, event.peer_id, ClientDefault),
                       !.reported[event.peer_id] = << >> ]
      [] event.msg = "Request" ->
           handled(IF event.peer_id \in DOMAIN st.peers THEN st
                   ELSE [ st EXCEPT !.peers = HashMapInsert(@, event.peer_id, ClientDefault) ],
                   event.peer_id,
                   handle_request(IF event.peer_id \in DOMAIN st.peers
                                  THEN st.peers[event.peer_id] ELSE ClientDefault,
                                  event.line,
                                  event.peer_id \in failing
                                    \/ st.stream[event.peer_id] = "shutdown",
                                  chn, m))
      [] event.msg = "Done" ->
           [ st EXCEPT !.peers = HashMapRemove(@, event.peer_id) ]

\* handle: one event applied to the peers map (st carries the peers, the
\* streams, and what has been written and reported); failing is the set of
\* connections whose socket refuses writes
handle(st, event, failing, chn, m) ==
    CASE event.msg = "New" ->
           [ st EXCEPT !.peers = HashMapInsert(@, event.peer_id, ClientDefault),
                       !.reported[event.peer_id] = << >> ]
      [] event.msg = "Request" ->
           IF event.peer_id \notin DOMAIN st.peers
           THEN st
           ELSE handled(st, event.peer_id,
                        handle_request(st.peers[event.peer_id], event.line,
                                       event.peer_id \in failing
                                         \/ st.stream[event.peer_id] = "shutdown",
                                       chn, m))
      [] event.msg = "Done" ->
           [ st EXCEPT !.peers = HashMapRemove(@, event.peer_id) ]

\* history: the event is noted as handled; it is in order when it is the
\* one sent next after the last one handled, New being the first and Done
\* the last
Seen(st, event) ==
    [ st EXCEPT !.seen[event.peer_id] =
        [ n |-> event.seq, last |-> event.msg,
          ordered |-> /\ @.ordered
                      /\ event.seq = (@.n + 1) % TagModulus
                      /\ event.msg = "New" <=> @.last = ""
                      /\ @.last # "Done" ] ]

RECURSIVE handle_all_reversed(_, _, _, _, _)
\* a drain that would take the batch from its newest event back to its oldest
handle_all_reversed(st, events, failing, chn, m) ==
    IF events = << >> THEN st
    ELSE handle_all_reversed(Seen(handle(st, events[Len(events)], failing, chn, m),
                                  events[Len(events)]),
                             SubSeq(events, 1, Len(events) - 1), failing, chn, m)

RECURSIVE handle_all_moving(_, _, _, _, _)
\* a drain during which the mirror would be emptied between two events
handle_all_moving(st, events, failing, chn, m) ==
    IF events = << >> THEN st
    ELSE handle_all_moving(Seen(handle(st, Head(events), failing, chn, m), Head(events)),
                           Tail(events), failing, chn, MempoolNew)

RECURSIVE handle_all(_, _, _, _, _)
\* run, lines 62-66: handle for the received event and the buffered ones
handle_all(st, events, failing, chn, m) ==
    IF events = << >> THEN st
    ELSE handle_all(Seen(handle(st, Head(events), failing, chn, m), Head(events)),
                    Tail(events), failing, chn, m)

\* Tracker::sync, lines 85-86: the chain the index sync left, and what the
\* mirror's sync did
synced_mempool(chn, r) ==
    [ result |-> r.result, chain |-> chn, mempool |-> r.mempool, abort |-> r.abort,
      tick |-> [ index |-> "ok", mempool |-> r.result ] ]

\* a sync that would go on to the mirror's sync after a failed index sync
Tracker_sync_mempool_anyway(chn, m, indexReply, mempoolReply) ==
    IF indexReply = None
    THEN [ result |-> "err", chain |-> chn, mempool |-> Mempool_sync(m, mempoolReply).mempool,
           abort |-> "",
           tick |-> [ index |-> "err", mempool |-> Mempool_sync(m, mempoolReply).result ] ]
    ELSE synced_mempool(Unwrap(indexReply), Mempool_sync(m, mempoolReply))

\* Tracker::sync: the index sync, then the mirror's; an error of the first
\* returns before the second
Tracker_sync(chn, m, indexReply, mempoolReply) ==
    IF indexReply = None
    THEN [ result |-> "err", chain |-> chn, mempool |-> m, abort |-> "",
           tick |-> [ index |-> "err", mempool |-> "skipped" ] ]
    ELSE synced_mempool(Unwrap(indexReply), Mempool_sync(m, mempoolReply))

\* nothing written to any connection
NothingWritten == [ p \in DOMAIN reader |-> << >> ]

\* the process runs: main has neither returned nor panicked
Running == pc \notin { "exit", "error" } /\ abort = ""

\* the tracker as a sync leaves it; an error ends the main task
Synced(r, next) ==
    /\ chain' = r.chain
    /\ mempool' = r.mempool
    /\ abort' = r.abort
    /\ tick' = r.tick
    /\ pc' = IF r.result = "ok" THEN next ELSE "error"

\* The upstream's answers to one Tracker::sync: the P2P peer fails or
\* moves the chain; the node's mempool holds transactions of 1..NumServerTx
\* and no confirmed one.
SyncStep(next) ==
    /\ abort = ""
    /\ \E indexReply \in { None } \cup { Some(c) : c \in ChainUpdates(chain) } :
       \E mempoolReply \in UpstreamRepliesOver(DOMAIN mempool.entries, 1..NumServerTx) :
         /\ indexReply # None /\ mempoolReply.txids # None
              => Unwrap(mempoolReply.txids) \cap ConfirmedTxids(Unwrap(indexReply)) = {}
         /\ Synced(Tracker_sync(chain, mempool, indexReply, mempoolReply), next)
    /\ written' = NothingWritten
    /\ processed' = {}
    /\ failedWrites' = {}
    /\ UNCHANGED << callVars, cacheVars, lastSync, peers, stream, reported, seen, envVars >>

\* main: tracker.sync().context("initial sync failed")? before server::run
InitialSync == pc = "main" /\ SyncStep("select")

\* run, line 69: rpc.sync().context("rpc sync failed")?
RpcSync == pc = "sync" /\ SyncStep("notify")

\* a select that would take Exit as it takes Trigger
SelectSignal_exit_ignored ==
    /\ pc = "select" /\ abort = ""
    /\ signals # << >>
    /\ signals' = Tail(signals)
    /\ pc' = "sync"
    /\ written' = NothingWritten
    /\ processed' = {}
    /\ failedWrites' = {}
    /\ UNCHANGED << callVars, cacheVars, trackerVars, peers, stream, reported, seen, reader, chan, lines >>

\* run, lines 52-58: the select takes a signal
SelectSignal ==
    /\ pc = "select" /\ abort = ""
    /\ signals # << >>
    /\ signals' = Tail(signals)
    /\ pc' = IF Head(signals) = "Exit" THEN "exit" ELSE "sync"
    /\ written' = NothingWritten
    /\ processed' = {}
    /\ failedWrites' = {}
    /\ UNCHANGED << callVars, cacheVars, trackerVars, peers, stream, reported, seen, reader, chan, lines >>

\* the peers map and the streams as the handled events leave them
Handled(st) ==
    /\ peers' = st.peers
    /\ stream' = st.stream
    /\ written' = st.written
    /\ reported' = st.reported
    /\ failedWrites' = st.failed
    /\ seen' = st.seen

\* a drain that would take no buffered event behind the received one
buffered_events_none(rest) == << >>

\* run, line 62: server_rx.iter().take(server_rx.len()), the events buffered
\* behind the received one when the length is read
buffered_events(rest) == SubSeq(rest, 1, Len(rest))

\* run, lines 60-63: the received event chained with the buffered ones, and
\* what stays in the channel
Drain(chn) ==
    [ batch |-> << Head(chn) >> \o buffered_events(Tail(chn)),
      left  |-> SubSeq(Tail(chn), Len(buffered_events(Tail(chn))) + 1, Len(Tail(chn))) ]

\* run, lines 60-66: the select takes an event; it and the events buffered
\* behind it are handled. The text of each request line is drawn here, where
\* it is first read.
SelectEvents ==
    /\ pc = "select" /\ abort = ""
    /\ chan # << >>
    /\ \E failing \in SUBSET { chan[i].peer_id : i \in { j \in 1..Len(chan) : chan[j].msg = "Request" } } :
       \E text \in [ { i \in 1..Len(chan) : chan[i].msg = "Request" } -> Lines ] :
         Handled(handle_all([ peers |-> peers, stream |-> stream,
                              written |-> NothingWritten, reported |-> reported,
                              failed |-> {}, seen |-> seen ],
                            [ i \in 1..Len(Drain(chan).batch) |->
                                Tagged(Event(chan[i].peer_id, chan[i].msg,
                                             IF i \in DOMAIN text THEN text[i] ELSE NoLine),
                                       chan[i].seq) ],
                            failing, chain, mempool))
    /\ chan' = Drain(chan).left
    /\ pc' = "sync"
    /\ processed' = {}
    /\ UNCHANGED << callVars, cacheVars, trackerVars, reader, signals, lines >>

\* a timeout that would go on to the notification pass without the sync
SelectTimeout_no_sync ==
    /\ pc = "select" /\ abort = ""
    /\ chan = << >> /\ signals = << >>
    /\ pc' = "notify"
    /\ written' = NothingWritten
    /\ processed' = {}
    /\ failedWrites' = {}
    /\ UNCHANGED << callVars, cacheVars, trackerVars, peers, stream, reported, seen, envVars >>

\* run, line 67: the wait times out with nothing to receive
SelectTimeout ==
    /\ pc = "select" /\ abort = ""
    /\ chan = << >> /\ signals = << >>
    /\ pc' = "sync"
    /\ written' = NothingWritten
    /\ processed' = {}
    /\ failedWrites' = {}
    /\ UNCHANGED << callVars, cacheVars, trackerVars, peers, stream, reported, seen, envVars >>

\* run, lines 70-76, the collect: the peers in done were taken up, those in
\* failed returned an error (of them, those in broken from update_client)
Collected(upd, out, broken, failed, done) ==
    /\ processed' = done \ broken
    /\ failedWrites' = { p \in done \ broken : ~out[p].ok }
    /\ peers' = [ p \in DOMAIN peers |->
                    IF p \in done \ broken THEN upd[p].client ELSE peers[p] ]
    /\ written' = [ p \in DOMAIN reader |->
                      IF p \in done \ failed THEN out[p].sent ELSE << >> ]
    /\ reported' = [ p \in DOMAIN reader |->
                       IF p \in done \ failed
                       THEN ReportedAfter(reported[p], out[p].sent)
                       ELSE reported[p] ]
    /\ pc' = IF failed = {} THEN "select" ELSE "error"

\* run, lines 70-76: without an error every peer is taken up; the first
\* error ends run, and the peers not yet taken up may be left out
Notified(upd, out, broken, failed) ==
    \E done \in IF failed = {} THEN { DOMAIN peers } ELSE SUBSET DOMAIN peers :
       /\ failed # {} => done \cap failed # {}
       /\ Collected(upd, out, broken, failed, done)

\* run, lines 72-74: send of each peer's notifications
Sent(upd, out, broken) ==
    Notified(upd, out, broken, broken \cup { p \in DOMAIN peers : ~out[p].ok })

\* run, lines 72-73: update_client of each peer
Updated(upd, failing, broken) ==
    Sent(upd,
         [ p \in DOMAIN peers |->
             send(upd[p].notifications, p \in failing \/ stream[p] = "shutdown") ],
         broken)

\* run, lines 70-76: update_client and send for every peer, in parallel.
\* failing are the connections whose socket refuses writes, broken the
\* peers whose status update fails.
NotifyPass ==
    /\ pc = "notify" /\ abort = ""
    /\ \E failing \in SUBSET { p \in DOMAIN peers : stream[p] = "open" },
          broken \in SUBSET { p \in DOMAIN peers : DOMAIN peers[p].status # {} } :
         Updated([ p \in DOMAIN peers |-> Rpc_update_client(peers[p], chain, mempool) ],
                 failing, broken)
    /\ UNCHANGED << callVars, cacheVars, trackerVars, stream, seen, envVars >>

\* accept_loop, and recv_loop, lines 153-156: the next connection gets the
\* next peer id and a reader, which first sends the New event
Accept ==
    /\ Running /\ pc # "main"
    /\ Cardinality(DOMAIN reader) < MaxPeers
    /\ LET peer_id == Cardinality(DOMAIN reader)
           with(f, v) == [ p \in (DOMAIN f) \cup {peer_id} |-> IF p = peer_id THEN v ELSE f[p] ]
       IN  /\ reader' = with(reader, "lines")
           /\ chan' = Append(chan, Tagged(Event(peer_id, "New", NoLine), 1))
           /\ stream' = with(stream, "open")
           /\ written' = with(written, << >>)
           /\ reported' = with(reported, << >>)
           /\ seen' = with(seen, NoneSeen)
    /\ UNCHANGED << callVars, cacheVars, trackerVars, pc, peers, processed, failedWrites, signals, lines >>

\* recv_loop, lines 158-163: a line read and sent as a Request event
ReaderRequest(p) ==
    /\ Running
    /\ reader[p] = "lines" /\ stream[p] = "open"
    /\ lines < MaxLines
    /\ chan' = Append(chan, Tagged(Event(p, "Request", NoLine), (Pushed(p) + 1) % TagModulus))
    /\ lines' = lines + 1
    /\ UNCHANGED << callVars, cacheVars, trackerVars, serverVars, reader, signals >>

\* recv_loop, lines 164-168, and accept_loop, line 145: at the end of the
\* input the Done event is sent and the stream shut down
ReaderDone(p) ==
    /\ Running
    /\ reader[p] = "lines"
    /\ chan' = Append(chan, Tagged(Event(p, "Done", NoLine), (Pushed(p) + 1) % TagModulus))
    /\ reader' = [ reader EXCEPT ![p] = "closed" ]
    /\ stream' = [ stream EXCEPT ![p] = "shutdown" ]
    /\ UNCHANGED << callVars, cacheVars, trackerVars, pc, peers, written, reported, processed, failedWrites, seen,
                    signals, lines >>

\* recv_loop, line 159, and accept_loop, line 145: a failed read returns the
\* error from recv_loop, and the stream is shut down
ReaderFailed(p) ==
    /\ Running
    /\ reader[p] = "lines"
    /\ reader' = [ reader EXCEPT ![p] = "closed" ]
    /\ stream' = [ stream EXCEPT ![p] = "shutdown" ]
    /\ UNCHANGED << callVars, cacheVars, trackerVars, pc, peers, written, reported, processed, failedWrites, seen,
                    chan, signals, lines >>

\* signals::register: SIGUSR1 is sent on as Trigger, SIGINT and SIGTERM as Exit
Signal ==
    /\ Running /\ pc # "main"
    /\ Len(signals) < MaxSignals
    /\ \E sig \in { "Exit", "Trigger" } : signals' = Append(signals, sig)
    /\ UNCHANGED << callVars, cacheVars, trackerVars, serverVars, reader, chan, lines >>

Next ==
    \/ InitialSync
    \/ RpcSync
    \/ SelectSignal
    \/ SelectEvents
    \/ SelectTimeout
    \/ NotifyPass
    \/ Accept
    \/ \E p \in DOMAIN reader : ReaderRequest(p)
    \/ \E p \in DOMAIN reader : ReaderDone(p)
    \/ \E p \in DOMAIN reader : ReaderFailed(p)
    \/ Signal

Spec == Init /\ [][Next]_vars

\* ------------------------------- the server under clients that never stop

\* accept_loop, for the connections of the fair specification
AcceptFair == Cardinality(DOMAIN reader) < MaxFairPeers /\ Accept

\* recv_loop, lines 158-163: a line read and sent as a Request event, as
\* often as the client likes while the channel is short
ReaderRequestQueued(p) ==
    /\ Running
    /\ reader[p] = "lines" /\ stream[p] = "open"
    /\ Len(chan) < MaxQueued
    /\ chan' = Append(chan, Tagged(Event(p, "Request", NoLine), (Pushed(p) + 1) % TagModulus))
    /\ UNCHANGED << callVars, cacheVars, trackerVars, serverVars, reader, signals, lines >>

NextFair ==
    \/ InitialSync
    \/ RpcSync
    \/ SelectSignal
    \/ SelectEvents
    \/ SelectTimeout
    \/ NotifyPass
    \/ AcceptFair
    \/ \E p \in DOMAIN reader : ReaderRequestQueued(p)
    \/ \E p \in DOMAIN reader : ReaderDone(p)
    \/ \E p \in DOMAIN reader : ReaderFailed(p)
    \/ Signal

\* The select of crossbeam takes one of the ready operations at random: a
\* signal that is ready again and again is taken at last.
SpecFair == Init /\ [][NextFair]_vars /\ SF_vars(SelectSignal)

\* ---------------------------------------------------------------- p2p.rs

\* the block hashes for_blocks is called with
NumBlockHashes == 2
\* the longest list of block hashes of one call
MaxBlocks == 2
\* the most messages the peer sends before its stream ends
MaxReplies == 3
\* the most writes the socket takes before it breaks
MaxWrites == 2

BlockHashes == 1..NumBlockHashes

\* NetworkMessage: its type and what it carries
NetworkMessage(type, arg) == [ type |-> type, arg |-> arg ]

\* NetworkMessage::GetData of Inventory::WitnessBlock for each hash
GetData(blockhashes) == NetworkMessage("getdata", blockhashes)

\* NetworkMessage::Block; the block is named by its hash
Block(hash) == NetworkMessage("block", << hash >>)

\* Block::block_hash
block_hash(block) == block.arg[1]

\* the socket of the connection: what has been written to it, how many more
\* writes it takes, and what the peer sends before its stream ends
Connection(replies, writable) == [ sent |-> << >>, writable |-> writable, replies |-> replies ]

\* Connection::send: write_all, and the connection afterwards
Connection_send(conn, msg) ==
    IF conn.writable = 0
    THEN [ result |-> Err("p2p failed to send"), conn |-> conn ]
    ELSE [ result |-> Ok(<< >>),
           conn |-> [ conn EXCEPT !.sent = Append(@, msg), !.writable = @ - 1 ] ]

RECURSIVE Connection_recv(_)
\* Connection::recv: messages are read until one is a payload for the caller
Connection_recv(conn) ==
    IF conn.replies = << >>
    THEN [ result |-> Err("p2p failed to recv"), conn |-> conn ]
    ELSE LET msg  == Head(conn.replies)
             read == [ conn EXCEPT !.replies = Tail(@) ]
         IN  CASE msg.type = "version" ->
                    IF Connection_send(read, NetworkMessage("verack", << >>)).result.ok
                    THEN Connection_recv(Connection_send(read, NetworkMessage("verack", << >>)).conn)
                    ELSE [ result |-> Err("p2p failed to send"), conn |-> read ]
               [] msg.type = "ping" ->
                    IF Connection_send(read, NetworkMessage("pong", msg.arg)).result.ok
                    THEN Connection_recv(Connection_send(read, NetworkMessage("pong", msg.arg)).conn)
                    ELSE [ result |-> Err("p2p failed to send"), conn |-> read ]
               [] msg.type \in { "verack", "alert", "addr", "inv" } -> Connection_recv(read)
               [] OTHER -> [ result |-> Ok(msg), conn |-> read ]

\* a for_blocks that would pass on whatever block it is sent
assert_eq_skipped(block, hash) == TRUE

\* for_blocks, line 137: assert_eq!(block.block_hash(), hash)
assert_eq_block_hash(block, hash) == block_hash(block) = hash

\* what for_blocks leaves: Ok, the error it returns or the panic, the calls
\* of func made, and the connection
Left(result, calls, conn) == [ result |-> result, calls |-> calls, conn |-> conn ]

RECURSIVE for_blocks_loop(_, _, _)
\* for_blocks, lines 134-143: one message received for each hash
for_blocks_loop(blockhashes, conn, calls) ==
    IF blockhashes = << >> THEN Left("ok", calls, conn)
    ELSE LET r == Connection_recv(conn)
         IN  IF ~r.result.ok THEN Left(r.result.value, calls, r.conn)
             ELSE IF r.result.value.type # "block" THEN Left("unexpected", calls, r.conn)
             ELSE IF ~assert_eq_block_hash(r.result.value, Head(blockhashes))
             THEN Left("panic: got unexpected block", calls, r.conn)
             ELSE for_blocks_loop(Tail(blockhashes), r.conn,
                                  Append(calls, << Head(blockhashes), r.result.value >>))

\* Client::for_blocks, with the mutex of the connection held throughout
for_blocks(blockhashes, conn) ==
    IF blockhashes = << >> THEN Left("ok", << >>, conn)
    ELSE IF ~Connection_send(conn, GetData(blockhashes)).result.ok
    THEN Left("p2p failed to send", << >>, conn)
    ELSE for_blocks_loop(blockhashes, Connection_send(conn, GetData(blockhashes)).conn, << >>)

\* ------------------------------------------- single calls of the methods

\* The arguments of the calls of server.version.
VersionCalls ==
    { [ fn |-> "server.version", args |-> << client_id, client_version >> ] :
        client_id \in ClientIds, client_version \in Versions }

\* A client that has just connected sends one server.version request:
\* Rpc::handle_request on it.
CallVersion ==
    /\ call # None /\ ret = None
    /\ Unwrap(call).fn = "server.version"
    /\ ret' = Some(Rpc_handle_request(ClientDefault,
                                      Request("server.version", Unwrap(call).args),
                                      chain, mempool))
    /\ UNCHANGED << trackerVars, serverVars, envVars, cacheVars, call >>

\* a chain of h blocks above genesis
ChainOfHeight(h) == [ i \in 1..h |-> i ]

\* numbers about max_count
AroundMax == (max_count - Around)..(max_count + Around)

\* The arguments of the calls of blockchain.block.headers: short chains and
\* chains about max_count high, starts at the bottom and about the tip,
\* counts small and about max_count.
BlockHeadersCalls ==
    { [ fn |-> "blockchain.block.headers", args |-> << h, start_height, count >> ] :
        h \in (0..MaxCallHeight) \cup AroundMax,
        start_height \in 0..(MaxCallHeight + 2),
        count \in (0..MaxCallHeight) \cup AroundMax }
    \cup
    { [ fn |-> "blockchain.block.headers", args |-> << h, h + d - 2, count >> ] :
        h \in AroundMax, d \in 0..4, count \in (0..MaxCallHeight) \cup AroundMax }

\* One call of Rpc::block_headers on a tracker whose chain has the height
\* asked for.
CallBlockHeaders ==
    /\ call # None /\ ret = None
    /\ Unwrap(call).fn = "blockchain.block.headers"
    /\ \E outcome \in block_headers(ChainOfHeight(Unwrap(call).args[1]),
                                     Unwrap(call).args[2], Unwrap(call).args[3]) :
         ret' = Some(outcome)
    /\ UNCHANGED << trackerVars, serverVars, envVars, cacheVars, call >>

\* the lists of n txids
TxidLists(n) == [ 1..n -> Txids ]

\* The arguments of the calls that build a Merkle branch: a block's txids,
\* any of the node's transactions in any order, also repeated, or the
\* distinct transactions 1 .. n, and a position in them.
MerkleCalls ==
    { [ fn |-> "merkle", args |-> << txids, pos >> ] :
        txids \in UNION { TxidLists(n) : n \in 1..MaxBlockTxs }
                    \cup { [ i \in 1..n |-> i ] : n \in 1..MaxBlockTxs },
        pos \in 0..(MaxBlockTxs - 1) }

\* One Merkle branch built for the transaction at a position of a block:
\* by create_merkle_branch as Rpc::transaction_get_merkle calls it, by
\* Proof::create, and by Rpc::transaction_get_merkle as a whole.
CallMerkle ==
    /\ call # None /\ ret = None
    /\ Unwrap(call).fn = "merkle"
    /\ Unwrap(call).args[2] < Len(Unwrap(call).args[1])
    /\ ret' = Some([ branch |-> create_merkle_branch(MerkleNodes(Unwrap(call).args[1]),
                                                     Unwrap(call).args[2]),
                     proof |-> Proof_create(Unwrap(call).args[1][Unwrap(call).args[2] + 1],
                                            Unwrap(call).args[1], 1),
                     get_merkle |-> transaction_get_merkle(
                                        Unwrap(call).args[1][Unwrap(call).args[2] + 1],
                                        Unwrap(call).args[1], 1) ])
    /\ UNCHANGED << trackerVars, serverVars, envVars, cacheVars, call >>

\* the sequences over S of length at most n
SeqsUpTo(S, n) == UNION { [ 1..k -> S ] : k \in 0..n }

\* the messages a peer sends to one getdata
PeerMessages ==
    { Block(h) : h \in BlockHashes }
    \cup { NetworkMessage("ping", << 7 >>), NetworkMessage("inv", << >>),
           NetworkMessage("version", << >>), NetworkMessage("notfound", << >>) }

\* The arguments of the calls of for_blocks: the block hashes asked for, what
\* the peer sends before its stream ends, and the writes the socket takes.
ForBlocksCalls ==
    { [ fn |-> "for_blocks", args |-> << blockhashes, replies, writable >> ] :
        blockhashes \in SeqsUpTo(BlockHashes, MaxBlocks),
        replies \in SeqsUpTo(PeerMessages, MaxReplies),
        writable \in 0..MaxWrites }

\* One call of Client::for_blocks.
CallForBlocks ==
    /\ call # None /\ ret = None
    /\ Unwrap(call).fn = "for_blocks"
    /\ ret' = Some(for_blocks(Unwrap(call).args[1],
                              Connection(Unwrap(call).args[2], Unwrap(call).args[3])))
    /\ UNCHANGED << trackerVars, serverVars, envVars, cacheVars, call >>

Calls == VersionCalls \cup BlockHeadersCalls \cup MerkleCalls \cup ForBlocksCalls

InitCalls == InitProcess /\ call \in { Some(c) : c \in Calls } /\ ret = None

NextCalls ==
    \/ CallVersion
    \/ CallBlockHeaders
    \/ CallMerkle
    \/ CallForBlocks

SpecCalls == InitCalls /\ [][NextCalls]_vars

\* ------------------------------------------ specification of the cache

\* the map an operation of the cache works on
MapOf(op) == IF op \in {"add_tx", "get_tx"} THEN "txs" ELSE "txids"

IsAdd(op) == op \in {"add_tx", "add_txids"}

IsGet(op) == op \in {"get_tx", "get_txids"}

\* what the gets of a call have been given so far, with the value v
Gotten(log, v) == [ log EXCEPT !.gotten = @ \cup {v} ]

\* A thread calls add_tx or add_txids with a key and a producer, or get_tx
\* or get_txids with a key and a projection. The producers of different
\* threads yield different values.
CacheCall(t) ==
    /\ callers[t].at = "idle"
    /\ \E key \in CacheKeys :
         \/ \E op \in {"add_tx", "add_txids"} :
              callers' = [ callers EXCEPT ![t] =
                             [ op |-> op, key |-> key, value |-> t, f |-> "",
                               at |-> "lock", ret |-> None ] ]
         \/ \E op \in {"get_tx", "get_txids"}, f \in Projections :
              callers' = [ callers EXCEPT ![t] =
                             [ op |-> op, key |-> key, value |-> 0, f |-> f,
                               at |-> "lock", ret |-> None ] ]
    /\ UNCHANGED << callVars, trackerVars, serverVars, envVars, cache, rwlock, cacheLog >>

\* RwLock::write of an add: granted while nobody holds the lock.
CacheWrite(t) ==
    LET c == callers[t]
        m == MapOf(c.op)
    IN  /\ c.at = "lock" /\ IsAdd(c.op)
        /\ rwlock[m].writer = None /\ rwlock[m].readers = {}
        /\ rwlock' = [ rwlock EXCEPT ![m].writer = Some(t) ]
        /\ callers' = [ callers EXCEPT ![t].at = "held" ]
        /\ cacheLog' = [ cacheLog EXCEPT ![m][c.key].first =
                           IF @ = None THEN Some([ caller |-> t, value |-> c.value ]) ELSE @ ]
        /\ UNCHANGED << callVars, trackerVars, serverVars, envVars, cache >>

\* what add_tx or add_txids does to its map
Added(c) ==
    IF c.op = "add_tx" THEN add_tx(cache.txs, c.key, c.value)
    ELSE add_txids(cache.txids, c.key, c.value)

\* entry(key).or_insert_with(f) of an add, under the write lock.
CacheAdd(t) ==
    LET c == callers[t]
        m == MapOf(c.op)
    IN  /\ c.at = "held" /\ IsAdd(c.op)
        /\ cache' = [ cache EXCEPT ![m] = Added(c).map ]
        /\ callers' = [ callers EXCEPT ![t].at = "unlock" ]
        /\ cacheLog' = IF Added(c).evaluated
                       THEN [ cacheLog EXCEPT ![m][c.key].evaluated = Min2(@ + 1, 2),
                                              ![m][c.key].by =
                                                  Some([ caller |-> t, value |-> c.value ]) ]
                       ELSE cacheLog
        /\ UNCHANGED << callVars, trackerVars, serverVars, envVars, rwlock >>

\* RwLock::read of a get: granted while no writer holds the lock.
CacheRead(t) ==
    LET c == callers[t]
        m == MapOf(c.op)
    IN  /\ c.at = "lock" /\ IsGet(c.op)
        /\ rwlock[m].writer = None
        /\ rwlock' = [ rwlock EXCEPT ![m].readers = @ \cup {t} ]
        /\ callers' = [ callers EXCEPT ![t].at = "held" ]
        /\ UNCHANGED << callVars, trackerVars, serverVars, envVars, cache, cacheLog >>

\* what get_tx or get_txids returns
Got(c) ==
    IF c.op = "get_tx" THEN get_tx(cache.txs, c.key, c.f)
    ELSE get_txids(cache.txids, c.key, c.f)

\* get(key).map(f) of a get, under the read lock.
CacheGet(t) ==
    LET c == callers[t]
        m == MapOf(c.op)
    IN  /\ c.at = "held" /\ IsGet(c.op)
        /\ callers' = [ callers EXCEPT ![t].at = "unlock", ![t].ret = Got(c) ]
        /\ cacheLog' = IF Got(c) = None THEN cacheLog
                       ELSE [ cacheLog EXCEPT ![m][c.key] = Gotten(@, Unwrap(Got(c))[2]) ]
        /\ UNCHANGED << callVars, trackerVars, serverVars, envVars, cache, rwlock >>

\* The guard of the lock is dropped at the end of the statement, and the
\* call returns.
CacheUnlock(t) ==
    LET c == callers[t]
        m == MapOf(c.op)
    IN  /\ c.at = "unlock"
        /\ rwlock' = [ rwlock EXCEPT ![m] = [ writer |-> @.writer \ {t},
                                              readers |-> @.readers \ {t} ] ]
        /\ callers' = [ callers EXCEPT ![t] = Idle ]
        /\ UNCHANGED << callVars, trackerVars, serverVars, envVars, cache, cacheLog >>

NextCache ==
    \E t \in Callers :
        \/ CacheCall(t)
        \/ CacheWrite(t)
        \/ CacheAdd(t)
        \/ CacheRead(t)
        \/ CacheGet(t)
        \/ CacheUnlock(t)

SpecCache == Init /\ [][NextCache]_vars

\* ------------------------------------------------- claims on the mirror

\* the last call of Mempool::sync returned Ok
SyncOk == lastSync.result = "ok"

\* the upstream reply of the last call
LastReply == Unwrap(lastSync.reply)

\* the txid set N the upstream reported to the last successful call
LastN == Unwrap(LastReply.txids)

\* the txids of the last call that were new and whose two fetches succeeded
LastFetchedOk ==
    { t \in LastN \ DOMAIN lastSync.old : IsSome(LastReply.raw[t]) /\ IsSome(LastReply.entry[t]) }

\* the txids of the last call that were new and had a fetch fail
LastFetchFailed == (LastN \ DOMAIN lastSync.old) \ LastFetchedOk

\* C1: after any sequence of Mempool::sync calls, every (sh, txid) of
\* by_funding names an entry of the main map one of whose outputs hashes to
\* sh, every (outpoint, txid) of by_spending names an entry one of whose
\* inputs consumes outpoint, and so neither filter hits its expect.
C1_IndicesConsistent ==
    /\ \A p \in mempool.by_funding :
         /\ p[2] \in DOMAIN mempool.entries
         /\ \E i \in 1..Len(mempool.entries[p[2]].tx.output) :
              ScriptHashNew(mempool.entries[p[2]].tx.output[i]) = p[1]
    /\ \A p \in mempool.by_spending :
         /\ p[2] \in DOMAIN mempool.entries
         /\ \E i \in 1..Len(mempool.entries[p[2]].tx.input) :
              mempool.entries[p[2]].tx.input[i] = p[1]
    /\ \A p \in mempool.by_funding : ~filter_by_funding_panics(mempool, p[1])
    /\ \A p \in mempool.by_spending : ~filter_by_spending_panics(mempool, p[1])
    /\ abort = ""

\* C1's case: a sync has removed an entry that shared a script, and one that
\* shared an outpoint, with an entry the mirror still holds.
C1_Witness ==
    /\ SyncOk
    /\ \E t \in DOMAIN lastSync.old \ DOMAIN mempool.entries, u \in DOMAIN mempool.entries :
         Range(TransactionOf(t).output) \cap Range(TransactionOf(u).output) # {}
    /\ \E t \in DOMAIN lastSync.old \ DOMAIN mempool.entries, u \in DOMAIN mempool.entries :
         Range(TransactionOf(t).input) \cap Range(TransactionOf(u).input) # {}

\* C8: after a sync that returned Ok with the upstream reporting N, nothing
\* outside N is left in entries or the indices; an entry held before and
\* still in N is unchanged and was not fetched again; a new txid of N whose
\* two fetches succeeded is in entries and in both indices.
C8_SyncResult ==
    SyncOk =>
      /\ DOMAIN mempool.entries \subseteq LastN
      /\ \A p \in mempool.by_funding : p[2] \in LastN
      /\ \A p \in mempool.by_spending : p[2] \in LastN
      /\ \A t \in DOMAIN lastSync.old \cap LastN :
           /\ t \in DOMAIN mempool.entries
           /\ mempool.entries[t] = lastSync.old[t]
           /\ t \notin lastSync.fetched
      /\ \A t \in LastFetchedOk :
           /\ t \in DOMAIN mempool.entries
           /\ mempool.entries[t].tx = Unwrap(LastReply.raw[t])
           /\ \A i \in 1..Len(TransactionOf(t).output) :
                << ScriptHashNew(TransactionOf(t).output[i]), t >> \in mempool.by_funding
           /\ \A i \in 1..Len(TransactionOf(t).input) :
                << TransactionOf(t).input[i], t >> \in mempool.by_spending

\* C8's case: one sync kept an entry, dropped an entry and added an entry.
C8_Witness ==
    /\ SyncOk
    /\ DOMAIN lastSync.old \cap LastN # {}
    /\ DOMAIN lastSync.old \ LastN # {}
    /\ LastFetchedOk # {}

\* C9: a reported txid with a failed fetch is skipped: the sync still returns
\* Ok and the txid leaves no trace in entries or the indices; a txid skipped
\* before is fetched again by every later sync whose upstream still reports
\* it, and is inserted by that sync exactly when both fetches succeed; once
\* the upstream no longer reports it, it is not inserted.
C9_SkippedRetried ==
    /\ (lastSync.result # "none" /\ IsSome(LastReply.txids)) => SyncOk
    /\ SyncOk =>
         /\ \A t \in LastFetchFailed :
              /\ t \notin DOMAIN mempool.entries
              /\ \A p \in mempool.by_funding : p[2] # t
              /\ \A p \in mempool.by_spending : p[2] # t
         /\ \A t \in lastSync.skipped \cap LastN :
              /\ t \in lastSync.fetched
              /\ t \in DOMAIN mempool.entries <=> t \in LastFetchedOk
         /\ \A t \in lastSync.skipped \ LastN : t \notin DOMAIN mempool.entries

\* C9's case: of the txids skipped before, one is inserted by this sync, one
\* fails again, and one is no longer reported.
C9_Witness ==
    /\ SyncOk
    /\ \E t \in lastSync.skipped \cap LastN : t \in DOMAIN mempool.entries
    /\ \E t \in lastSync.skipped \cap LastN : t \in LastFetchFailed
    /\ \E t \in lastSync.skipped : t \notin LastN

\* the vsize and fee the histogram has to count after the last sync: those of
\* the entries kept, and those the upstream gave for the entries added
ExpectedEntries ==
    [ t \in (DOMAIN lastSync.old \cap LastN) \cup LastFetchedOk |->
        IF t \in DOMAIN lastSync.old
        THEN [ vsize |-> lastSync.old[t].vsize, fee |-> lastSync.old[t].fee ]
        ELSE [ vsize |-> Unwrap(LastReply.entry[t]).vsize,
               fee |-> Unwrap(LastReply.entry[t]).fees_base ] ]

\* the total vsize over the buckets of a histogram
HistogramVsize(h) == SumOver([ b \in h |-> b[2] ], h)

C2_WriteFailureRemovesPeer ==
    \A p \in failedWrites :
        /\ p \notin DOMAIN peers
        /\ stream[p] = "shutdown"
        /\ pc # "error"

\* the peers map after the main task handles one request line of peer p
AfterRequest(p, line) ==
    handle([ peers |-> peers, stream |-> stream, written |-> NothingWritten,
             reported |-> reported, failed |-> {} ],
           Event(p, "Request", line), {}, chain, mempool)

\* a bad envelope, an unsupported method, params of the wrong shape
RejectedLines ==
    { NotRequest,
      Request("server.unknown", << >>),
      Request("blockchain.scripthash.subscribe", << >>) }

\* the connected peers whose socket takes writes
Connected == { p \in DOMAIN peers : stream[p] = "open" }

\* C3: a malformed request (a bad envelope, params of the wrong shape) or an
\* unsupported method is answered by a JSON error response with code 1, and
\* the peer stays in the peer map with its stream open and its subscriptions
\* and tip unchanged.
C3_MalformedRequestAnswered ==
    \A p \in Connected : \A line \in RejectedLines :
        /\ AfterRequest(p, line).peers = peers
        /\ AfterRequest(p, line).stream = stream
        /\ Len(AfterRequest(p, line).written[p]) = 1
        /\ AfterRequest(p, line).written[p][1].kind = "error"
        /\ AfterRequest(p, line).written[p][1].payload.code = 1

\* C4: blockchain.scripthash.subscribe for a script hash already in the
\* client's subscription map leaves the existing Status as it was, so the
\* next tick notifies the client of nothing it would not have been notified
\* of without the repeated subscribe.
C4_ResubscribeKeepsStatus ==
    \A p \in Connected : \A sh \in DOMAIN peers[p].status :
        /\ AfterRequest(p, Request("blockchain.scripthash.subscribe", << sh >>)).peers[p].status
             = peers[p].status
        /\ Rpc_update_client(
               AfterRequest(p, Request("blockchain.scripthash.subscribe", << sh >>)).peers[p],
               chain, mempool).notifications
             = Rpc_update_client(peers[p], chain, mempool).notifications

\* C5: blockchain.scripthash.subscribe returns the current status hash of
\* the script: null exactly when the script has neither confirmed history
\* nor mempool transactions at the call, else the hash a status update
\* against the same index and mempool produces.
C5_SubscribeReturnsCurrentHash ==
    \A p \in Connected : \A sh \in ScriptHashes :
        /\ Len(AfterRequest(p, Request("blockchain.scripthash.subscribe", << sh >>)).written[p]) = 1
        /\ AfterRequest(p, Request("blockchain.scripthash.subscribe", << sh >>)).written[p][1].kind
             = "result"
        /\ AfterRequest(p, Request("blockchain.scripthash.subscribe", << sh >>)).written[p][1].payload
             = StatusSync(StatusNew(sh), chain, mempool).statushash

\* the blockchain.scripthash.subscribe notifications for sh among values
StatusNotesFor(values, sh) ==
    SelectSeq(values, LAMBDA v : /\ v.kind = "notification"
                                 /\ v.method = "blockchain.scripthash.subscribe"
                                 /\ v.payload[1] = sh)

\* the status hash of a script over the tracker's index and mempool
CurrentHash(sh) == StatusSync(StatusNew(sh), chain, mempool).statushash

\* the step is a notification pass
IsNotifyPass == pc = "notify" /\ pc' # "notify"

\* the peers the pass updated and wrote the notifications to
Served == processed \ failedWrites

\* C6: in the notification pass of a tick, for every client served and every
\* script hash it is subscribed to, a blockchain.scripthash.subscribe
\* notification is written if and only if the status hash recomputed after
\* the tick's sync differs from the hash last reported to that client for
\* the script hash (by the subscribe response or the last notification); at
\* most one is written per script hash, and it carries the new hash.
C6_StatusNotifications ==
    [][ IsNotifyPass =>
          \A p \in Served' : \A sh \in DOMAIN peers[p].status :
              /\ Len(StatusNotesFor(written'[p], sh)) <= 1
              /\ Len(StatusNotesFor(written'[p], sh)) = 1 <=> CurrentHash(sh) # reported[p][sh]
              /\ Len(StatusNotesFor(written'[p], sh)) = 1
                   => StatusNotesFor(written'[p], sh)[1].payload[2] = CurrentHash(sh) ]_vars

\* a pass has just notified one client of a new status hash and left another
\* subscription, whose hash was reported before, without notification
C6_Witness ==
    /\ pc = "select"
    /\ \E p \in Served : \E sh \in DOMAIN peers[p].status :
         /\ Len(StatusNotesFor(written[p], sh)) = 1
         /\ StatusNotesFor(written[p], sh)[1].payload[2] # None
    /\ \E q \in Served : \E sh \in DOMAIN peers[q].status :
         /\ StatusNotesFor(written[q], sh) = << >>
         /\ reported[q][sh] # None

\* the blockchain.headers.subscribe notifications among values
HeadersNotes(values) ==
    SelectSeq(values, LAMBDA v : /\ v.kind = "notification"
                                 /\ v.method = "blockchain.headers.subscribe")

\* the serialised tip header and the height of the tracker's chain
TipHeader == [ hex |-> HeaderHex(Unwrap(get_block_header(chain, ChainHeight(chain)))),
               height |-> ChainHeight(chain) ]

\* the client was told a header: it has called blockchain.headers.subscribe
ToldHeader(p) == HeadersKey \in DOMAIN reported[p]

\* C7: blockchain.headers.subscribe records the chain tip in the client and
\* returns the tip header; in the notification pass of each tick a client
\* served gets exactly one blockchain.headers.subscribe notification, with
\* the tip header and height, if the tip differs from the one last reported
\* to it, and none otherwise, and its recorded tip is then the chain tip; a
\* client that never called blockchain.headers.subscribe gets none.
C7_HeadersNotifications ==
    [][ /\ pc = "select" /\ pc' = "sync" =>
            \A p \in DOMAIN peers' : \A i \in 1..Len(written'[p]) :
                (written'[p][i].kind = "result"
                   /\ written'[p][i].id[1] = "blockchain.headers.subscribe")
                => /\ written'[p][i].payload = TipHeader
                   /\ peers'[p].tip = Some(ChainTip(chain))
        /\ IsNotifyPass =>
            \A p \in Served' :
                IF ToldHeader(p) /\ reported[p][HeadersKey].hex # TipHeader.hex
                THEN /\ HeadersNotes(written'[p])
                          = << notification("blockchain.headers.subscribe", << TipHeader >>) >>
                     /\ peers'[p].tip = Some(ChainTip(chain))
                ELSE /\ HeadersNotes(written'[p]) = << >>
                     /\ peers'[p].tip = IF ToldHeader(p) THEN Some(ChainTip(chain)) ELSE None
      ]_vars

\* a pass has just notified a client of the moved tip and written no headers
\* notification to a client that never subscribed to the headers
C7_Witness ==
    /\ pc = "select"
    /\ \E p \in Served : /\ Len(HeadersNotes(written[p])) = 1
                          /\ peers[p].tip = Some(ChainTip(chain))
    /\ \E q \in Served : /\ ~ToldHeader(q)
                          /\ HeadersNotes(written[q]) = << >>

\* ------------------------------------------------- claims on the readers

\* C11: whenever the reader loop of a connection ends, by EOF or by a read
\* error, a Done event with that peer's id is pushed on the event channel as
\* the last event of that peer.
C11_ReaderEndPushesDone ==
    [][ \A p \in DOMAIN reader :
          reader[p] = "lines" /\ reader'[p] = "closed"
            => /\ Len(chan') = Len(chan) + 1
               /\ chan'[Len(chan')].peer_id = p
               /\ chan'[Len(chan')].msg = "Done" ]_vars

\* C12: for each peer, the main task handles that peer's events in the order
\* its reader sent them, none skipped: New first, then its Request lines in
\* the order they were read, then Done, however the readers interleave and
\* however the events fall into batches.
C12_EventsInOrder ==
    \A p \in DOMAIN seen : seen[p].ordered

\* the main task has handled the events of two connections, of one of them
\* up to its Done after a Request
C12_Witness ==
    \E p \in DOMAIN seen : \E q \in (DOMAIN seen) \ {p} :
       /\ seen[p].n >= 3
       /\ seen[p].last = "Done"
       /\ seen[q].n >= 2

\* ------------------------------------------------ claims on the main loop

\* a step of the main task (every statement of main and run moves pc)
MainStep == pc' # pc

\* the notifications among values
Notes(values) == SelectSeq(values, LAMBDA v : v.kind = "notification")

\* the step writes a notification to some connection
WritesNotes == MainStep /\ \E p \in DOMAIN written' : Notes(written'[p]) # << >>

\* the value is a notification of what the tracker holds: the status hash of
\* its script computed from the index and the mirror, or the tip header
NoteOfTracker(v) ==
    IF v.method = "blockchain.scripthash.subscribe"
    THEN v.payload[2] = CurrentHash(v.payload[1])
    ELSE v.method = "blockchain.headers.subscribe" /\ v.payload[1] = TipHeader

\* C13: every status or headers notification is written by the notification
\* pass, which only follows a completed sync and precedes the next one, and
\* carries what the tracker state left by that sync gives; the tracker state
\* changes in a sync only, and a sync writes nothing.
C13_NotificationsAfterSync ==
    [][ /\ WritesNotes =>
              /\ pc = "notify"
              /\ chain' = chain /\ mempool' = mempool
              /\ \A p \in DOMAIN written' :
                    \A i \in 1..Len(Notes(written'[p])) : NoteOfTracker(Notes(written'[p])[i])
        /\ pc' = "notify" /\ MainStep => pc = "sync"
        /\ pc = "notify" /\ MainStep => pc' \in { "select", "error" }
        /\ (chain' # chain \/ mempool' # mempool) =>
              /\ pc \in { "main", "sync" }
              /\ \A p \in DOMAIN written' : written'[p] = << >> ]_vars

\* a pass has just written the status notification of a script with history
\* and a headers notification, after a sync that moved the chain
C13_Witness ==
    /\ pc = "select"
    /\ chain # << >>
    /\ \E p \in DOMAIN written : \E q \in DOMAIN written :
         /\ \E i \in 1..Len(written[p]) :
              /\ written[p][i].kind = "notification"
              /\ written[p][i].method = "blockchain.scripthash.subscribe"
              /\ written[p][i].payload[2] # None
         /\ \E i \in 1..Len(written[q]) :
              /\ written[q][i].kind = "notification"
              /\ written[q][i].method = "blockchain.headers.subscribe"

\* the select of the main loop takes the Exit signal
TakesExit ==
    /\ pc = "select" /\ MainStep
    /\ signals # << >> /\ Head(signals) = "Exit" /\ signals' = Tail(signals)

\* the select of the main loop takes a Trigger signal
TakesTrigger ==
    /\ pc = "select" /\ MainStep
    /\ signals # << >> /\ Head(signals) = "Trigger" /\ signals' = Tail(signals)

\* C14: every wake of the main loop other than Exit (a Trigger signal, a
\* batch of client events, the timeout) goes on to one tracker sync, which
\* unless it fails goes on to one notification pass, which unless it fails
\* takes up every peer in the peer map and returns to the select; a Trigger
\* changes nothing but the signal queue.
C14_WakeSyncNotify ==
    [][ /\ pc = "select" /\ (MainStep \/ Len(signals') < Len(signals) \/ Len(chan') < Len(chan))
              => IF TakesExit THEN pc' = "exit" ELSE pc' = "sync"
        /\ TakesTrigger =>
              /\ UNCHANGED << mempool, abort, chain, peers, stream, reported, seen, reader, chan >>
              /\ \A p \in DOMAIN written' : written'[p] = << >>
        /\ pc = "sync" /\ MainStep =>
              /\ pc' \in { "notify", "error" }
              /\ UNCHANGED << peers, stream, reported, seen, chan, signals >>
        /\ pc = "notify" /\ MainStep =>
              /\ pc' \in { "select", "error" }
              /\ pc' = "select" => processed' = DOMAIN peers /\ failedWrites' = {}
              /\ UNCHANGED << mempool, chain, chan, signals, seen >>
              /\ DOMAIN peers' = DOMAIN peers ]_vars

\* a pass has just taken up the two peers of the peer map
C14_Witness ==
    /\ pc = "select"
    /\ Cardinality(DOMAIN peers) = 2
    /\ processed = DOMAIN peers
    /\ failedWrites = {}

\* an Exit signal waits on the signal channel
ExitQueued == \E i \in 1..Len(signals) : signals[i] = "Exit"

\* run has returned, or the process has panicked
Returned == pc \in { "exit", "error" } \/ abort # ""

\* no sync and no notification pass goes on for ever
TicksTerminate == []<>(pc # "sync") /\ []<>(pc # "notify")

\* C15: once an Exit signal is queued, and provided no sync and no pass in
\* progress goes on for ever, the loop takes the signal at last and returns
\* Ok, however many client events keep arriving, unless a failing sync or
\* pass has ended run with its error before; taking Exit returns at once,
\* and after it the main task syncs, handles and notifies no more.
C15_ExitReturns ==
    /\ TicksTerminate => (ExitQueued ~> Returned)
    /\ [][ /\ TakesExit => pc' = "exit"
           /\ pc = "exit" =>
                 UNCHANGED << pc, mempool, chain, peers, stream, written, reported, seen, chan >> ]_vars

\* run has returned Ok on an Exit that waited while a client's request was
\* handled
C15_Witness ==
    /\ pc = "exit"
    /\ \E p \in DOMAIN seen : seen[p].last = "Request"

\* the last sync failed: its index sync or its mirror's sync returned an error
SyncFailed(t) == t.index = "err" \/ t.mempool = "err"

\* C16: if the tracker sync of a tick fails, in the index sync or in the
\* mirror's sync, run returns the error: the tick has no notification pass,
\* nothing is written, and nothing is handled or synced afterwards; after a
\* failed index sync the mirror's sync is not called.
C16_SyncFailureEndsRun ==
    [][ /\ pc = "sync" /\ MainStep =>
              /\ SyncFailed(tick') <=> pc' = "error"
              /\ ~SyncFailed(tick') /\ abort' = "" => pc' = "notify"
              /\ tick'.index = "err" => tick'.mempool = "skipped" /\ mempool' = mempool
              /\ \A p \in DOMAIN written' : written'[p] = << >>
              /\ UNCHANGED << peers, stream, reported, seen, chan >>
        /\ pc = "error" => UNCHANGED << pc, mempool, chain, tick, serverVars, chan >> ]_vars

\* run has returned the error of a tick whose index sync failed while a
\* peer was connected and a request waited on the channel
C16_Witness ==
    /\ pc = "error"
    /\ tick = [ index |-> "err", mempool |-> "skipped" ]
    /\ DOMAIN peers # {}
    /\ chan # << >>

\* ------------------------------------------------ claims on the methods

\* the call made is one of fn and has returned
Called(fn) == call # None /\ ret # None /\ Unwrap(call).fn = fn

\* C17: server.version succeeds, returning [server_id, "1.4"], if and only
\* if the client's version argument is the single string "1.4"; every other
\* single version string and every [min, max] range, whatever its bounds,
\* is answered by an error with code 1.
C17_VersionOnlyProtocol ==
    Called("server.version") =>
        /\ Unwrap(ret).ok
        /\ IF Unwrap(call).args[2] = Single("1.4")
           THEN /\ Unwrap(ret).value.kind = "result"
                /\ Unwrap(ret).value.payload = << ServerId, "1.4" >>
           ELSE /\ Unwrap(ret).value.kind = "error"
                /\ Unwrap(ret).value.payload.code = 1

\* the range ["1.4", "1.4"] has been rejected
C17_Witness ==
    /\ Called("server.version")
    /\ Unwrap(call).args[2] = Range2("1.4", "1.4")
    /\ Unwrap(ret).value.kind = "error"

\* server.version requests the server rejects: another single version, a range
RejectedVersionLines ==
    { Request("server.version", << "electrum", Single("1.3") >>),
      Request("server.version", << "electrum", Range2("1.3", "1.5") >>) }

\* C18: when server.version is rejected (another single version, or a
\* range), the client's connection is closed: after the error the peer is
\* removed from the peer map and its stream is shut down.
C18_RejectedVersionCloses ==
    \A p \in Connected : \A line \in RejectedVersionLines :
        /\ p \notin DOMAIN AfterRequest(p, line).peers
        /\ AfterRequest(p, line).stream[p] = "shutdown"

\* the least of three numbers
Min3(a, b, c) == IF a <= b /\ a <= c THEN a ELSE IF b <= c THEN b ELSE c

\* the count blockchain.block.headers is to return for a chain of height h
CountOf(h, start, count) == Min3(count, 2016, h - start + 1)

\* C19: for every chain height h, every start <= h and every count,
\* blockchain.block.headers returns count' = min(count, 2016, h - start + 1),
\* as hex the concatenation of exactly the headers at the heights start ..
\* start + count' - 1 in ascending order, and max = 2016; it asks for no
\* header above the tip.
C19_BlockHeaders ==
    Called("blockchain.block.headers") /\ Unwrap(call).args[2] <= Unwrap(call).args[1] =>
        /\ Unwrap(ret).panic = ""
        /\ Unwrap(ret).value.count = CountOf(Unwrap(call).args[1], Unwrap(call).args[2],
                                             Unwrap(call).args[3])
        /\ Unwrap(ret).value.max = 2016
        /\ Len(Unwrap(ret).value.hex) = Unwrap(ret).value.count
        /\ \A i \in 1..Len(Unwrap(ret).value.hex) :
              Unwrap(ret).value.hex[i] = HeaderHex(Unwrap(call).args[2] + i - 1)
        /\ \A height \in Unwrap(ret).read : height <= Unwrap(call).args[1]

\* 2017 headers were asked for from the bottom of a chain of height 2017,
\* and 2016 were returned
C19_Witness ==
    /\ Called("blockchain.block.headers")
    /\ Unwrap(call).args = << 2017, 0, 2017 >>
    /\ Unwrap(ret).panic = ""
    /\ Unwrap(ret).value.count = 2016

RECURSIVE Folded(_, _, _)
\* the branch folded from the node current at position pos: at each level
\* hash(current, sibling) for an even position, hash(sibling, current) for
\* an odd one, and the position halved
Folded(current, branch, pos) ==
    IF branch = << >> THEN current
    ELSE Folded(IF pos % 2 = 0 THEN << "hash", current, Head(branch) >>
                               ELSE << "hash", Head(branch), current >>,
                Tail(branch), pos \div 2)

RECURSIVE MerkleRoot(_)
\* the Merkle root of a level: pairwise hashing, the last node of an odd
\* level hashed with itself
MerkleRoot(nodes) ==
    IF Len(nodes) = 1 THEN nodes[1]
    ELSE MerkleRoot([ i \in 1..((Len(nodes) + 1) \div 2) |->
                       << "hash", nodes[2 * i - 1],
                          IF 2 * i <= Len(nodes) THEN nodes[2 * i] ELSE nodes[2 * i - 1] >> ])

RECURSIVE TreeLevels(_)
\* the levels of the tree over n leaves, the root level not counted
TreeLevels(n) == IF n <= 1 THEN 0 ELSE 1 + TreeLevels((n + 1) \div 2)

\* C20: for every non-empty ordered list of txids and every position pos in
\* it, the Merkle branch built for pos, folded from the txid at pos with
\* the standard combiner, equals the block's Merkle root, and the branch has
\* one hash per tree level (none for a block of one transaction); so for
\* the branch of create_merkle_branch and for the proof of Proof::create,
\* which is built for the first position of the txid.
C20_MerkleBranchFoldsToRoot ==
    Called("merkle") =>
        /\ Folded(Unwrap(call).args[1][Unwrap(call).args[2] + 1], Unwrap(ret).branch,
                  Unwrap(call).args[2])
             = MerkleRoot(Unwrap(call).args[1])
        /\ Len(Unwrap(ret).branch) = TreeLevels(Len(Unwrap(call).args[1]))
        /\ Unwrap(ret).proof.ok
        /\ Folded(Unwrap(call).args[1][Unwrap(call).args[2] + 1], Unwrap(ret).proof.value.proof,
                  Unwrap(Position(Unwrap(call).args[1],
                                  Unwrap(call).args[1][Unwrap(call).args[2] + 1])))
             = MerkleRoot(Unwrap(call).args[1])
        /\ Len(Unwrap(ret).proof.value.proof) = TreeLevels(Len(Unwrap(call).args[1]))

\* a branch of three hashes was built for the last of five distinct
\* transactions, whose node is doubled on two levels
C20_Witness ==
    /\ Called("merkle")
    /\ Unwrap(call).args = << << 1, 2, 3, 4, 5 >>, 4 >>
    /\ Len(Unwrap(ret).branch) = 3
    /\ Unwrap(ret).branch[1] = 5

\* --------------------------------------------------- claims on the cache

\* what the producer of the add that logged entry e yields for key k of map m
Yields(m, k, e) == IF m = "txs" THEN ProducedTx(k, e.value) ELSE CollectedTxids(e.value)

\* the gets of key k of map m that have returned and still hold the read lock
Getting(m, k) ==
    { t \in Callers : /\ callers[t].at = "unlock" /\ IsGet(callers[t].op)
                      /\ MapOf(callers[t].op) = m /\ callers[t].key = k }

\* Key k of map m is as insert-if-absent leaves it: its producer has run at
\* most once, for the first add that took the write lock, whose value is
\* the one stored; every get has returned that value, projected, or absent
\* as long as no add had taken the lock.
InsertedOnce(m, k) ==
    LET log == cacheLog[m][k]
    IN  /\ log.evaluated <= 1
        /\ (k \in DOMAIN cache[m]) <=> (log.evaluated = 1)
        /\ log.evaluated = 1 =>
             /\ log.by = log.first
             /\ cache[m][k] = Yields(m, k, Unwrap(log.first))
             /\ log.gotten \subseteq { cache[m][k] }
        /\ log.evaluated = 0 => log.gotten = {}
        /\ \A t \in Getting(m, k) :
             /\ log.first = None => callers[t].ret = None
             /\ callers[t].ret # None =>
                  callers[t].ret = Some(Apply(callers[t].f, Yields(m, k, Unwrap(log.first))))

\* a stored value stays
Kept(m, k) == k \in DOMAIN cache[m] => k \in DOMAIN cache'[m] /\ cache'[m][k] = cache[m][k]

\* C21: add_tx and add_txids are insert-if-absent under every interleaving
\* of concurrent callers: the producer of a key is evaluated exactly once, by
\* the first add to take the write lock and never on a later add; a stored
\* value is never overwritten or removed; every get that returns a value
\* returns the projection of that one value, and a get of a key never added
\* returns absent.
C21_InsertIfAbsent ==
    /\ [](\A m \in CacheMaps, k \in CacheKeys : InsertedOnce(m, k))
    /\ [][\A m \in CacheMaps, k \in CacheKeys : Kept(m, k)]_vars

\* A later add of a key, by another thread with another producer, has run
\* and left the stored value alone, and a get has returned that value.
C21_Witness ==
    \E m \in CacheMaps, k \in CacheKeys, t \in Callers :
        /\ cacheLog[m][k].evaluated = 1
        /\ cacheLog[m][k].gotten # {}
        /\ callers[t].at = "unlock" /\ IsAdd(callers[t].op)
        /\ MapOf(callers[t].op) = m /\ callers[t].key = k
        /\ callers[t].value # Unwrap(cacheLog[m][k].first).value

\* --------------------------------------------------- claims on the drain

\* the main task takes the event branch of the select
TakesEvents == pc = "select" /\ pc' = "sync" /\ chan' # chan

\* is chn what other is, with events behind it or without
Extends(other, chn) == Len(chn) <= Len(other) /\ SubSeq(other, 1, Len(chn)) = chn

\* C22: when the event branch of the select fires, the received event and
\* every event buffered at that moment are handled, in channel order, before
\* the following sync starts; an event enqueued later stays in the channel
\* until a later wake; no event is lost and none is handled twice.
C22_DrainsBatch ==
    [][/\ TakesEvents =>
            /\ chan' = << >>
            /\ \A p \in DOMAIN seen : seen'[p].n = Pushed(p) /\ seen'[p].ordered
       /\ ~TakesEvents => /\ Extends(chan', chan)
                        /\ \A p \in DOMAIN seen : seen'[p] = seen[p]]_vars

\* A batch taken at once: two requests of one connection were buffered and
\* both have been answered in the one step before the sync, another
\* connection's New is handled, and nothing is left in the channel.
C22_Witness ==
    /\ pc = "sync" /\ chan = << >>
    /\ \E p, q \in DOMAIN seen :
         /\ p # q
         /\ seen[p].n = 3 /\ seen[p].last = "Request"
         /\ seen[q].n = 1 /\ seen[q].last = "New"
         /\ Len(written[p]) = 2

\* ------------------------------------------- claims on the tracker state

\* the tracker state changes
TrackerMoves == chain' # chain \/ mempool' # mempool

\* the states the client of connection p has before, during and after a
\* batch of at most two of its requests
ClientsOf(p) ==
    { ClientDefault } \cup { peers[q] : q \in DOMAIN peers \cap {p} }
                      \cup { peers'[q] : q \in DOMAIN peers' \cap {p} }

\* what Rpc::handle_request answers to the request lines of a client on the
\* tracker state of index chain chn and mirror m
Answers(clients, chn, m) ==
    { r.value : r \in { a \in { Rpc_handle_request(c, line, chn, m) :
                                   c \in clients, line \in Lines } : a.ok } }

\* C23: the tracker state changes only inside the tracker sync the main task
\* runs; no request is handled and no status is recomputed in a step that
\* syncs, so every request of a batch is answered from the one tracker state
\* the batch starts with, and every notification of a pass is computed from
\* the one state the pass starts with.
C23_OneTrackerState ==
    [][ /\ TrackerMoves =>
              /\ MainStep /\ pc \in { "main", "sync" }
              /\ peers' = peers /\ reported' = reported
              /\ \A p \in DOMAIN seen : seen'[p] = seen[p]
              /\ \A p \in DOMAIN written' : written'[p] = << >>
        /\ TakesEvents =>
              /\ ~TrackerMoves
              /\ \A p \in DOMAIN written' : \A i \in 1..Len(written'[p]) :
                    written'[p][i] \in Answers(ClientsOf(p), chain, mempool)
        /\ IsNotifyPass =>
              /\ ~TrackerMoves
              /\ \A p \in DOMAIN written' : \A i \in 1..Len(written'[p]) :
                    NoteOfTracker(written'[p][i]) ]_vars

\* A batch of two requests has been answered from a mirror that holds a
\* transaction: the fee histogram and the status of a script.
C23_Witness ==
    /\ pc = "sync"
    /\ mempool # MempoolNew
    /\ \E p \in DOMAIN written :
         /\ Len(written[p]) = 2
         /\ written[p][1].kind = "result"
         /\ written[p][1].id[1] = "blockchain.scripthash.subscribe"
         /\ written[p][2].kind = "result"
         /\ written[p][2].id[1] = "mempool.get_fee_histogram"
         /\ written[p][2].payload = fees_histogram(mempool)
         /\ fees_histogram(mempool) # fees_histogram(MempoolNew)

\* ------------------------------------------------- claims on for_blocks

\* the messages of the peer that are neither answered nor skipped by recv
Payloads(replies) ==
    SelectSeq(replies, LAMBDA msg : msg.type \notin { "version", "ping", "verack",
                                                      "alert", "addr", "inv" })

\* how many of the hashes asked for the peer answers, one after the other,
\* with the block of that hash
Answered(blockhashes, payloads) ==
    CHOOSE k \in 0..Min2(Len(blockhashes), Len(payloads)) :
        /\ \A i \in 1..k : payloads[i] = Block(blockhashes[i])
        /\ k = Min2(Len(blockhashes), Len(payloads)) \/ payloads[k + 1] # Block(blockhashes[k + 1])

\* the getdata messages among those sent
GetDatas(sent) == SelectSeq(sent, LAMBDA msg : msg.type = "getdata")

\* for_blocks called with blockhashes on a peer that sends replies and a
\* socket that takes writable writes has left out
ForBlocksDone(blockhashes, replies, writable, out) ==
    LET payloads == Payloads(replies)
        k == Answered(blockhashes, payloads)
    IN  IF blockhashes = << >>
        THEN out.result = "ok" /\ out.calls = << >> /\ out.conn.sent = << >>
             /\ out.conn.replies = replies
        ELSE /\ GetDatas(out.conn.sent) = IF writable = 0 THEN << >> ELSE << GetData(blockhashes) >>
             /\ out.conn.sent # << >> => out.conn.sent[1] = GetData(blockhashes)
             /\ Len(out.calls) <= k
             /\ \A i \in 1..Len(out.calls) :
                   /\ out.calls[i][1] = blockhashes[i]
                   /\ block_hash(out.calls[i][2]) = blockhashes[i]
             /\ out.result = "ok" <=> Len(out.calls) = Len(blockhashes)
             /\ out.result # "p2p failed to send" =>
                   /\ Len(out.calls) = k
                   /\ k < Len(blockhashes) =>
                        out.result = IF k = Len(payloads) THEN "p2p failed to recv"
                                     ELSE IF payloads[k + 1].type = "block"
                                     THEN "panic: got unexpected block"
                                     ELSE "unexpected"

\* C24: for_blocks with a non-empty list sends one getdata for all the
\* hashes and then calls func once per hash, in the order asked, with the
\* block of that hash; a block of another hash trips the assertion and does
\* not reach func; a reply that is no block makes the call fail after the
\* calls of func for the hashes before it; with an empty list nothing is
\* sent and func is not called.
C24_ForBlocks ==
    Called("for_blocks") =>
        ForBlocksDone(Unwrap(call).args[1], Unwrap(call).args[2], Unwrap(call).args[3],
                      Unwrap(ret))

\* Two blocks asked for and delivered in order around a ping: one getdata and
\* the pong sent, func called for each.
C24_Witness ==
    /\ Called("for_blocks")
    /\ Unwrap(call).args[1] = << 2, 1 >>
    /\ Unwrap(call).args[2] = << Block(2), NetworkMessage("ping", << 7 >>), Block(1) >>
    /\ Unwrap(ret).result = "ok"
    /\ Unwrap(ret).calls = << << 2, Block(2) >>, << 1, Block(1) >> >>
    /\ Len(Unwrap(ret).conn.sent) = 2

\* ------------------------------------------ claims on the proof position

\* the first index of the requested txid in the txids of the block
RequestedIndex == Unwrap(Position(Unwrap(call).args[1],
                                  Unwrap(call).args[1][Unwrap(call).args[2] + 1]))

\* C25: the pos reported with a Merkle proof is the index of the requested
\* txid in the txid list of the block, in the value of Proof::create and in
\* the result of blockchain.transaction.get_merkle, and the two report the
\* same merkle and pos.
C25_ProofPosition ==
    Called("merkle") =>
        /\ Unwrap(ret).get_merkle.ok /\ Unwrap(ret).proof.ok
        /\ Unwrap(ret).get_merkle.value.pos = RequestedIndex
        /\ Proof_to_value(Unwrap(ret).proof.value).pos = RequestedIndex
        /\ Proof_to_value(Unwrap(ret).proof.value).merkle = Unwrap(ret).get_merkle.value.merkle

\* ------------------------------------ claims on headers above the tip

\* C26: blockchain.block.headers with a start height above the chain height
\* does not underflow height - start + 1: it answers count 0 with an empty
\* hex, with no wrapped count, no lookup above the tip and no panic of the
\* main task.
C26_StartAboveTip ==
    Called("blockchain.block.headers") /\ Unwrap(call).args[2] > Unwrap(call).args[1] =>
        /\ Unwrap(ret).panic = ""
        /\ Unwrap(ret).value.count = 0
        /\ Unwrap(ret).value.hex = << >>
        /\ \A height \in Unwrap(ret).read : height <= Unwrap(call).args[1]

\* ---------------------------------------------------- claims on peer ids

\* the connections whose peer has been inserted and removed
Removed == { p \in DOMAIN seen : seen[p].last # "" /\ p \notin DOMAIN peers }

\* the peers map, the streams and the writes of the main task as they are
BeforeEvent ==
    [ peers |-> peers, stream |-> stream, written |-> NothingWritten,
      reported |-> reported, failed |-> {} ]

\* handling the event changes nothing and writes nothing
Ignored(event) == handle(BeforeEvent, event, {}, chain, mempool) = BeforeEvent

\* the New events in the channel
NewEvents == { i \in 1..Len(chan) : chan[i].msg = "New" }

\* C27: a peer id is used for one connection only; a removed peer is never
\* inserted again, and a later Request or Done event with its id leaves the
\* peers map and the state of the other peers as they are and writes
\* nothing; a New event never replaces an entry of the peers map.
C27_PeerIdsNotReused ==
    /\ [](/\ \A p \in Removed :
               /\ Ignored(Event(p, "Done", NoLine))
               /\ \A line \in Lines : Ignored(Event(p, "Request", line))
          /\ \A i \in NewEvents :
               /\ chan[i].peer_id \notin DOMAIN peers
               /\ seen[chan[i].peer_id].last = ""
               /\ \A j \in NewEvents : chan[j].peer_id = chan[i].peer_id => j = i
          /\ \A p \in DOMAIN seen : seen[p].ordered)
    /\ [][\A p \in Removed : p \in DOMAIN seen' /\ seen'[p].last # "" /\ p \notin DOMAIN peers'
                             /\ MainStep => written'[p] = << >>]_vars

\* A peer has been removed on a request while its reader had more to send:
\* another request of its, and the Done of its reader, wait in the channel
\* or have been handled since.
C27_Witness ==
    \E p \in Removed :
        /\ seen[p].last = "Request" /\ seen[p].n = 3
        /\ \E i \in 1..Len(chan) : chan[i].peer_id = p /\ chan[i].msg = "Done"
        /\ \E q \in DOMAIN peers : q # p

\* ------------------------------------------ claims on unsubscribed scripts

\* the request of the history of a script hash
GetHistory(sh) == Request("blockchain.scripthash.get_history", << sh >>)

\* the script hashes the client of connection p has not subscribed to
Unsubscribed(p) == { sh \in ScriptHashes : sh \notin DOMAIN peers[p].status }

\* C28: blockchain.scripthash.get_history for a script hash the client has
\* not subscribed to is answered with an error response of code 1, no
\* subscription for scripthash; the client's subscriptions and tip stay as
\* they are and the connection stays open.
C28_HistoryUnsubscribed ==
    /\ \A p \in Connected : \A sh \in Unsubscribed(p) :
          /\ AfterRequest(p, GetHistory(sh)).peers = peers
          /\ AfterRequest(p, GetHistory(sh)).stream = stream
          /\ Len(AfterRequest(p, GetHistory(sh)).written[p]) = 1
          /\ AfterRequest(p, GetHistory(sh)).written[p][1].kind = "error"
          /\ AfterRequest(p, GetHistory(sh)).written[p][1].id = GetHistory(sh).id
          /\ AfterRequest(p, GetHistory(sh)).written[p][1].payload
               = [ code |-> 1, message |-> RpcFailed("no subscription for scripthash") ]
    /\ \A p \in DOMAIN written : \A i \in 1..Len(written[p]) :
          written[p][i].kind = "error"
            /\ written[p][i].id[1] = "blockchain.scripthash.get_history" =>
                written[p][i].payload
                  = [ code |-> 1, message |-> RpcFailed("no subscription for scripthash") ]

\* A client subscribed to one script has asked for the history of the other:
\* the error has been written, and the client is still connected with its
\* subscription.
C28_Witness ==
    /\ pc = "sync"
    /\ \E p \in Connected :
         /\ Unsubscribed(p) # {} /\ Unsubscribed(p) # ScriptHashes
         /\ Len(written[p]) = 1
         /\ written[p][1].kind = "error"
         /\ written[p][1].id[2][1] \in Unsubscribed(p)

====
